---- MODULE Spec2Model ----
(***************************************************************************)
(* Cache coordination state machine of SPDB (spatialdb/state.py,           *)
(* class CacheStateDB) over a Redis-like state store.                      *)
(*                                                                         *)
(* Keys and set members are Python strings.  A string is modelled as a     *)
(* sequence of tokens: the delimiter "&" is a token of its own, a decimal  *)
(* numeral is the sequence of its digits, and a literal prefix such as     *)
(* "PAGE-OUT" is one token.  str.format is concatenation and str.split /   *)
(* str.rsplit search for the "&" token, as in the source.                  *)
(***************************************************************************)
EXTENDS Integers, Sequences, FiniteSets, Bags, TLC

VARIABLES
    sets,    \* state store, set-typed keys: the pairs <<key, member>>
    lists,   \* state store, list-typed keys: key -> non-empty sequence
    strs,    \* state store, string-typed keys: key -> value
    watch,   \* per client connection: the WATCHed key and whether it was touched
    pc,      \* per client: position in the call it is executing
    loc,     \* per client: arguments and local variables of the call
    tally,   \* history: committed add_to_page_out results per page-out entry
    ncalls,  \* history: number of calls issued so far
    pushed,  \* history: per delayed-write queue, the keys pushed, in push order
    left,    \* history: per delayed-write queue, the keys taken off, in that order
    handed,  \* history: bag of the write-cuboid keys drainer calls returned
    objstore, \* object store: per object key, the write-cuboid keys put, in put order
    cache,   \* cache store: the staged write-cuboid keys
    entered, \* history: the write-cuboid keys in the order they passed add_to_page_out
    listener, \* self.status_client_listener: the pub/sub connection and its inbox
    seconds, \* (datetime.now() - start_time).seconds of the running wait_for_page_in
    wt,      \* the wait_for_page_in call: arguments, keys_set, position, outcome
    announced, \* history: the keys of the data messages the call took from its channel
    wrapped, \* history: a full day has passed since the call began
    created, \* history: the channel names create_page_in_channel has returned
    notified, \* history: the <<channel, key>> published on a channel after its creation
    idcount  \* id count table: reserve-id key -> the last id reserved

storeVars == <<sets, lists, strs>>
queueHist == <<pushed, left, handed>>
blobVars == <<objstore, cache>>
pageHist == <<wrapped, created, notified>>
waitVars == <<listener, seconds, wt, announced, pageHist>>
vars == <<sets, lists, strs, watch, pc, loc, tally, ncalls, pushed, left, handed,
          objstore, cache, entered, listener, seconds, wt, announced,
          wrapped, created, notified, idcount>>

-----------------------------------------------------------------------------
(* Bounds of the model *)

\* number of concurrent clients in the page-out call model
NumClients == 2
\* number of API calls the clients of the page-out call model issue in all
MaxCalls == 3
\* producers (one add_to_delayed_write each) of the queue call model
NumProducers == 2
\* writers (one write_cuboid each) of the write path model
NumWriters == 3

-----------------------------------------------------------------------------
(* Strings *)

Amp == <<"&">>

Digits == <<"0", "1", "2", "3", "4", "5", "6", "7", "8", "9">>

RECURSIVE Fmt(_)
\* "{}".format(n) for a non-negative int n
Fmt(n) == IF n < 10 THEN <<Digits[n + 1]>>
          ELSE Fmt(n \div 10) \o <<Digits[(n % 10) + 1]>>

\* positions of the "&" delimiter in s
AmpAt(s) == {i \in 1..Len(s) : s[i] = "&"}

Max(S) == CHOOSE x \in S : \A y \in S : y <= x
Min(S) == CHOOSE x \in S : \A y \in S : x <= y

\* s.split("&", 1)[1]
SplitTail(s) == SubSeq(s, Min(AmpAt(s)) + 1, Len(s))
\* s.rsplit("&", 1)[0] and s.rsplit("&", 1)[1]
RSplitHead(s) == SubSeq(s, 1, Max(AmpAt(s)) - 1)
RSplitLast(s) == SubSeq(s, Max(AmpAt(s)) + 1, Len(s))

-----------------------------------------------------------------------------
(* Inputs *)

Lookup1 == <<"1", "&", "2", "&", "3">>
Lookup2 == <<"9", "&", "9", "&", "9">>

\* cuboid addresses (lookup_key, resolution, time_sample, morton)
TupleA == [lookup |-> Lookup1, res |-> 0, t |-> 0, m |-> 7]
TupleB == [lookup |-> Lookup1, res |-> 0, t |-> 7, m |-> 0]
TupleC == [lookup |-> Lookup2, res |-> 0, t |-> 0, m |-> 7]
Tuples == {TupleA, TupleB, TupleC}

\* temp_page_out_key arguments
TempKeys == {<<"temp">>}

\* uuid suffixes of write-cuboid keys
Uuids == {<<"u1">>}

-----------------------------------------------------------------------------
(* Key formats *)

\* "PAGE-OUT&{}&{}".format(a, b) and "{}&{}".format(a, b) on strings
FormatPageOut(a, b) == <<"PAGE-OUT">> \o Amp \o a \o Amp \o b
FormatPair(a, b) == a \o Amp \o b

\* one page-out set per lookup key, whatever the resolution
PageOutKeyOfLookup(lookup_key, resolution) == <<"PAGE-OUT">> \o Amp \o lookup_key

PageOutKey(lookup_key, resolution) == FormatPageOut(lookup_key, Fmt(resolution))

PageOutMember(time_sample, morton) == FormatPair(Fmt(time_sample), Fmt(morton))

WriteCuboidKey(T, uuid) ==
    <<"WRITE-CUBOID">> \o Amp \o T.lookup \o Amp \o Fmt(T.res) \o Amp
        \o Fmt(T.t) \o Amp \o Fmt(T.m) \o Amp \o uuid

WriteKeys == {WriteCuboidKey(T, u) : T \in Tuples, u \in Uuids}

\* the page-out entry <<set key, member>> of a cuboid address
Entry(T) == <<PageOutKey(T.lookup, T.res), PageOutMember(T.t, T.m)>>
Entries == {Entry(T) : T \in Tuples}

-----------------------------------------------------------------------------
(* State store commands *)

SMembers(s, key) == {e[2] : e \in {x \in s : x[1] = key}}
SAdd(s, key, member) == s \cup {<<key, member>>}
SRem(s, key, member) == s \ {<<key, member>>}
\* a difference that ignores the page-out set
SDiffIgnoring(s, a, b) == SMembers(s, a)

SDiff(s, key1, key2) == SMembers(s, key1) \ SMembers(s, key2)

NoWatch == [key |-> <<>>, dirty |-> FALSE]

\* self.status_client_listener = None
NoListener == [state |-> "None", channel |-> <<>>, inbox |-> <<>>]

\* no wait_for_page_in call has been made
NoWait == [pc |-> "idle", keys |-> {}, keys_set |-> {}, page_in_channel |-> <<>>,
           timeout |-> 0, polled |-> FALSE, ret |-> "none"]

NoPageIn ==
    /\ listener = NoListener /\ seconds = 0 /\ wt = NoWait /\ announced = {}
    /\ wrapped = FALSE /\ created = {} /\ notified = {}

\* A write that changed `key` invalidates every other connection's WATCH on it
Touch(w, self, key, changed) ==
    [q \in DOMAIN w |->
        IF changed /\ q # self /\ w[q].key = key
        THEN [w[q] EXCEPT !.dirty = TRUE] ELSE w[q]]

-----------------------------------------------------------------------------
(* add_to_page_out *)

\* The sdiff queued after the sadd on the page-out set: its result is always
\* empty (a transaction that reads after it wrote).
page_out_transaction_late_diff(s, temp_page_out_key, lookup_key, resolution, morton, time_sample) ==
    LET page_out_key == PageOutKey(lookup_key, resolution)
        member == PageOutMember(time_sample, morton)
        s1 == SAdd(s, temp_page_out_key, member)
        s2 == SAdd(s1, page_out_key, member)
        result2 == SDiff(s2, temp_page_out_key, page_out_key)
    IN  [sets |-> s2, in_page_out |-> ~(Cardinality(result2) > 0)]

\* The member written as "<morton>&<time_sample>" (the argument order of the
\* other CacheStateDB variant).
page_out_transaction_swapped(s, temp_page_out_key, lookup_key, resolution, morton, time_sample) ==
    LET page_out_key == PageOutKey(lookup_key, resolution)
        member == PageOutMember(morton, time_sample)
        s1 == SAdd(s, temp_page_out_key, member)
        result2 == SDiff(s1, temp_page_out_key, page_out_key)
        s2 == SAdd(s1, page_out_key, member)
    IN  [sets |-> s2, in_page_out |-> ~(Cardinality(result2) > 0)]

\* The committed MULTI/EXEC block: sadd temp, expire, sdiff, sadd page-out
page_out_transaction(s, temp_page_out_key, lookup_key, resolution, morton, time_sample) ==
    LET page_out_key == PageOutKey(lookup_key, resolution)
        member == PageOutMember(time_sample, morton)
        s1 == SAdd(s, temp_page_out_key, member)
        result2 == SDiff(s1, temp_page_out_key, page_out_key)
        s2 == SAdd(s1, page_out_key, member)
    IN  [sets |-> s2, in_page_out |-> ~(Cardinality(result2) > 0)]

MaxWatchRetries == 200

\* the id count table with no id reserved
NoIds == <<>>

\* a client that is not inside a call
Idle == [lookup_key |-> <<>>, resolution |-> 0, morton |-> 0, time_sample |-> 0,
         temp_page_out_key |-> <<>>, cnt |-> 0, ret |-> "none", fresh |-> FALSE,
         write_cuboid_key |-> <<>>, resource_str |-> <<>>, delayed_write_key |-> <<>>,
         locked |-> FALSE, datatype |-> "", count |-> 0, first_id |-> 0,
         caught |-> "none", peeked |-> <<>>, seen |-> <<>>]

\* history record of one page-out entry since it was last removed: the number
\* of calls that returned in_page_out = False, whether a call returned True,
\* and whether one of them ran on a scratch set that held another member
NoCalls == [false |-> 0, true |-> FALSE, stale |-> FALSE]

\* pipe.watch(page_out_key)
add_to_page_out_watch(p) ==
    /\ pc[p] = "apo_watch"
    /\ watch' = [watch EXCEPT ![p] =
            [key |-> PageOutKey(loc[p].lookup_key, loc[p].resolution), dirty |-> FALSE]]
    /\ pc' = [pc EXCEPT ![p] = "apo_exec"]
    /\ UNCHANGED <<idcount, waitVars, blobVars, entered, storeVars, loc, tally, ncalls, queueHist>>

\* pipe.execute() succeeds: the watched key was not touched since the WATCH
add_to_page_out_commit(p) ==
    /\ pc[p] = "apo_exec"
    /\ ~watch[p].dirty
    /\ LET l == loc[p]
           page_out_key == PageOutKey(l.lookup_key, l.resolution)
           member == PageOutMember(l.time_sample, l.morton)
           r == page_out_transaction(sets, l.temp_page_out_key, l.lookup_key,
                                     l.resolution, l.morton, l.time_sample)
           e == <<page_out_key, member>>
           old == tally[e]
       IN  /\ sets' = r.sets
           /\ watch' = Touch([watch EXCEPT ![p] = NoWatch], p, page_out_key,
                             SMembers(r.sets, page_out_key) # SMembers(sets, page_out_key))
           /\ loc' = [loc EXCEPT ![p].ret = r.in_page_out,
                                  ![p].fresh = (SMembers(sets, l.temp_page_out_key) = {})]
           /\ tally' = [tally EXCEPT ![e] =
                  [false |-> old.false + (IF r.in_page_out THEN 0 ELSE 1),
                   true  |-> old.true \/ r.in_page_out,
                   stale |-> old.stale
                             \/ SMembers(sets, l.temp_page_out_key) \ {member} # {}]]
    /\ entered' = IF loc[p].write_cuboid_key = <<>> THEN entered
                   ELSE Append(entered, loc[p].write_cuboid_key)
    /\ pc' = [pc EXCEPT ![p] = "apo_ret"]
    /\ UNCHANGED <<idcount, waitVars, blobVars, lists, strs, ncalls, queueHist>>

\* a retry loop without the cap
add_to_page_out_watch_error_uncapped(p) ==
    /\ pc[p] = "apo_exec"
    /\ watch[p].dirty
    /\ watch' = [watch EXCEPT ![p] = NoWatch]
    /\ pc' = [pc EXCEPT ![p] = "apo_watch"]
    /\ UNCHANGED <<idcount, waitVars, blobVars, entered, storeVars, loc, tally, ncalls, queueHist>>

\* pipe.execute() raises redis.WatchError: count it and retry, or give up
add_to_page_out_watch_error(p) ==
    /\ pc[p] = "apo_exec"
    /\ watch[p].dirty
    /\ watch' = [watch EXCEPT ![p] = NoWatch]
    /\ LET cnt == loc[p].cnt + 1
       IN  IF cnt > MaxWatchRetries
           THEN /\ loc' = [loc EXCEPT ![p].cnt = cnt, ![p].ret = "REDIS_ERROR"]
                /\ pc' = [pc EXCEPT ![p] = "apo_raise"]
           ELSE /\ loc' = [loc EXCEPT ![p].cnt = cnt]
                /\ pc' = [pc EXCEPT ![p] = "apo_watch"]
    /\ UNCHANGED <<idcount, waitVars, blobVars, entered, storeVars, tally, ncalls, queueHist>>

-----------------------------------------------------------------------------
(* remove_from_page_out *)

\* the page-out set and member remove_from_page_out derives from a write-cuboid key
\* the member rebuilt as "<morton>&<time_sample>"
page_out_entry_of_swapped(write_cuboid_key) ==
    LET parts0 == SplitTail(write_cuboid_key)
        parts1 == RSplitHead(parts0)
        morton == RSplitLast(parts1)
        parts2 == RSplitHead(parts1)
        time_sample == RSplitLast(parts2)
        parts3 == RSplitHead(parts2)
        lookup == RSplitHead(parts3)
        res == RSplitLast(parts3)
    IN  <<FormatPageOut(lookup, res), FormatPair(morton, time_sample)>>

page_out_entry_of(write_cuboid_key) ==
    LET parts0 == SplitTail(write_cuboid_key)
        parts1 == RSplitHead(parts0)
        morton == RSplitLast(parts1)
        parts2 == RSplitHead(parts1)
        time_sample == RSplitLast(parts2)
        parts3 == RSplitHead(parts2)
        lookup == RSplitHead(parts3)
        res == RSplitLast(parts3)
    IN  <<FormatPageOut(lookup, res), FormatPair(time_sample, morton)>>

\* an SREM on the set named without the resolution
remove_from_page_out_no_resolution(s, write_cuboid_key) ==
    LET e == page_out_entry_of(write_cuboid_key)
    IN  SRem(s, RSplitHead(e[1]), e[2])

\* the SREM of remove_from_page_out on the store
remove_from_page_out(s, write_cuboid_key) ==
    LET e == page_out_entry_of(write_cuboid_key)
    IN  SRem(s, e[1], e[2])

-----------------------------------------------------------------------------
(* The scratch set's TTL (pipe.expire) runs out: the store drops the key *)

temp_key_expires(k) ==
    /\ SMembers(sets, k) # {}
    /\ sets' = {x \in sets : x[1] # k}
    /\ UNCHANGED <<idcount, waitVars, blobVars, entered, lists, strs, watch, pc, loc, tally, ncalls, queueHist>>

-----------------------------------------------------------------------------
(* Page-out call model: NumClients clients, each issuing up to MaxCalls     *)
(* calls of add_to_page_out / remove_from_page_out with arbitrary arguments *)

Clients == 1..NumClients

client_calls_add_to_page_out(p, T, temp) ==
    /\ pc[p] = "idle"
    /\ ncalls < MaxCalls
    /\ ncalls' = ncalls + 1
    /\ loc' = [loc EXCEPT ![p] =
            [Idle EXCEPT !.lookup_key = T.lookup, !.resolution = T.res, !.morton = T.m,
                         !.time_sample = T.t, !.temp_page_out_key = temp]]
    /\ pc' = [pc EXCEPT ![p] = "apo_watch"]
    /\ UNCHANGED <<idcount, waitVars, blobVars, entered, storeVars, watch, tally, queueHist>>

client_add_to_page_out_returns(p) ==
    /\ pc[p] = "apo_ret"
    /\ pc' = [pc EXCEPT ![p] = "idle"]
    /\ loc' = [loc EXCEPT ![p] = Idle]
    /\ UNCHANGED <<idcount, waitVars, blobVars, entered, storeVars, watch, tally, ncalls, queueHist>>

client_calls_remove_from_page_out(p, write_cuboid_key) ==
    /\ pc[p] = "idle"
    /\ ncalls < MaxCalls
    /\ ncalls' = ncalls + 1
    /\ LET e == page_out_entry_of(write_cuboid_key)
       IN  /\ sets' = remove_from_page_out(sets, write_cuboid_key)
           /\ watch' = Touch(watch, p, e[1], sets' # sets)
           /\ tally' = [x \in DOMAIN tally |-> IF x = e THEN NoCalls ELSE tally[x]]
    /\ UNCHANGED <<idcount, waitVars, blobVars, entered, lists, strs, pc, loc, queueHist>>

InitPageOut ==
    /\ sets = {}
    /\ lists = <<>>
    /\ strs = <<>>
    /\ watch = [p \in Clients |-> NoWatch]
    /\ pc = [p \in Clients |-> "idle"]
    /\ loc = [p \in Clients |-> Idle]
    /\ tally = [e \in Entries |-> NoCalls]
    /\ ncalls = 0
    /\ pushed = <<>> /\ left = <<>> /\ handed = EmptyBag
    /\ objstore = <<>> /\ cache = {} /\ entered = <<>>
    /\ NoPageIn
    /\ idcount = NoIds

NextPageOut ==
    \/ \E p \in Clients, T \in Tuples, temp \in TempKeys :
            client_calls_add_to_page_out(p, T, temp)
    \/ \E p \in Clients : add_to_page_out_watch(p)
    \/ \E p \in Clients : add_to_page_out_commit(p)
    \/ \E p \in Clients : add_to_page_out_watch_error(p)
    \/ \E p \in Clients : client_add_to_page_out_returns(p)
    \/ \E p \in Clients, k \in WriteKeys : client_calls_remove_from_page_out(p, k)
    \/ \E k \in TempKeys : temp_key_expires(k)

SpecPageOut == InitPageOut /\ [][NextPageOut]_vars

-----------------------------------------------------------------------------
(* Claims on the page-out call model *)

\* the page-out entry a client's current call is about
EntryOf(p) == <<PageOutKey(loc[p].lookup_key, loc[p].resolution),
                PageOutMember(loc[p].time_sample, loc[p].morton)>>

\* C1: among the add_to_page_out calls committed for one cuboid address since
\* the address was last absent from the page-out set (no remove_from_page_out
\* in between), each on a scratch set holding no other member, exactly one
\* returned in_page_out = False and every other one returned True.
C1_ExactlyOneOwner ==
    \A e \in Entries :
        (~tally[e].stale /\ (tally[e].false > 0 \/ tally[e].true))
            => tally[e].false = 1

\* Two calls raced on one address: one got False, the other lost the WATCH,
\* retried and got True.
C1_Witness ==
    \E p \in DOMAIN pc :
        /\ pc[p] = "apo_ret" /\ loc[p].ret = TRUE /\ loc[p].cnt >= 1
        /\ tally[EntryOf(p)].false = 1 /\ ~tally[EntryOf(p)].stale

\* C3: a committed add_to_page_out on an empty scratch set returns False
\* exactly when "<time_sample>&<morton>" was not in PAGE-OUT&<lookup>&<res>
\* right before the transaction, True exactly when it was, and the member is
\* in the page-out set afterwards.
C3_ResultIsMembership ==
    [][\A p \in DOMAIN pc :
        (pc[p] = "apo_exec" /\ pc'[p] = "apo_ret"
            /\ SMembers(sets, loc[p].temp_page_out_key) = {})
        => /\ loc'[p].ret = (EntryOf(p)[2] \in SMembers(sets, EntryOf(p)[1]))
           /\ EntryOf(p)[2] \in SMembers(sets', EntryOf(p)[1])]_vars

\* A call on an empty scratch set found its address already in page-out.
C3_Witness ==
    \E p \in DOMAIN pc :
        /\ pc[p] = "apo_ret" /\ loc[p].fresh /\ loc[p].ret = TRUE
        /\ EntryOf(p)[2] \in SMembers(sets, EntryOf(p)[1])

\* C19: remove_from_page_out("WRITE-CUBOID&<lookup>&<res>&<t>&<morton>&<uuid>")
\* takes "<t>&<morton>" out of PAGE-OUT&<lookup>&<res> and touches no other
\* member and no other set; when add_to_page_out for the tuple inserted the
\* member, add followed by remove leaves every page-out set as it was before
\* the add, and the next add_to_page_out for the tuple returns False.
C19_RemoveUndoesAdd ==
    \A T \in Tuples, uuid \in Uuids, temp \in TempKeys :
        LET write_cuboid_key == WriteCuboidKey(T, uuid)
            added == page_out_transaction(sets, temp, T.lookup, T.res, T.m, T.t)
            removed == remove_from_page_out(added.sets, write_cuboid_key)
            again == page_out_transaction(removed, temp, T.lookup, T.res, T.m, T.t)
            PageOutSets(st) == {x \in st : x[1] # temp}
        IN  /\ remove_from_page_out(sets, write_cuboid_key) = sets \ {Entry(T)}
            /\ Entry(T) \notin sets =>
                    /\ Entry(T) \in added.sets
                    /\ PageOutSets(removed) = PageOutSets(sets)
                    /\ again.in_page_out = FALSE

\* 0&7 was added and removed again (its scratch member is still there and its
\* history is reset) while 7&0 of the same page-out set stayed in.
C19_Witness ==
    /\ \E temp \in TempKeys : Entry(TupleA)[2] \in SMembers(sets, temp)
    /\ Entry(TupleA) \notin sets
    /\ tally[Entry(TupleA)] = NoCalls
    /\ Entry(TupleB) \in sets

-----------------------------------------------------------------------------
(* in_page_out: the pipeline (sadd scratch, expire) and the separate sdiff *)

\* the set difference taken the other way round
in_page_out_result_reversed(s, temp_page_out_key, lookup_key, resolution) ==
    LET result == SDiff(s, PageOutKey(lookup_key, resolution), temp_page_out_key)
    IN  IF result # {} THEN FALSE ELSE TRUE

\* result = sdiff(temp_page_out_key, page_out_key); if result: False else: True
in_page_out_result(s, temp_page_out_key, lookup_key, resolution) ==
    LET result == SDiff(s, temp_page_out_key, PageOutKey(lookup_key, resolution))
    IN  IF result # {} THEN FALSE ELSE TRUE

client_calls_in_page_out(p, T, temp) ==
    /\ pc[p] = "idle"
    /\ ncalls < MaxCalls
    /\ ncalls' = ncalls + 1
    /\ loc' = [loc EXCEPT ![p] =
            [Idle EXCEPT !.lookup_key = T.lookup, !.resolution = T.res, !.morton = T.m,
                         !.time_sample = T.t, !.temp_page_out_key = temp]]
    /\ pc' = [pc EXCEPT ![p] = "ipo_pipe"]
    /\ UNCHANGED <<idcount, waitVars, blobVars, entered, storeVars, watch, tally, queueHist>>

\* pipe.sadd(temp_page_out_key, member); pipe.expire(temp_page_out_key, 30);
\* pipe.execute()
in_page_out_pipeline(p) ==
    /\ pc[p] = "ipo_pipe"
    /\ LET l == loc[p]
           member == PageOutMember(l.time_sample, l.morton)
       IN  /\ sets' = SAdd(sets, l.temp_page_out_key, member)
           /\ watch' = Touch(watch, p, l.temp_page_out_key, sets' # sets)
           /\ loc' = [loc EXCEPT ![p].fresh = (SMembers(sets, l.temp_page_out_key) = {})]
    /\ pc' = [pc EXCEPT ![p] = "ipo_sdiff"]
    /\ UNCHANGED <<idcount, waitVars, blobVars, entered, lists, strs, tally, ncalls, queueHist>>

\* the sdiff outside the pipeline and the answer made from it
in_page_out_sdiff(p) ==
    /\ pc[p] = "ipo_sdiff"
    /\ loc' = [loc EXCEPT ![p].ret =
            in_page_out_result(sets, loc[p].temp_page_out_key, loc[p].lookup_key,
                               loc[p].resolution)]
    /\ pc' = [pc EXCEPT ![p] = "ipo_ret"]
    /\ UNCHANGED <<idcount, waitVars, blobVars, entered, storeVars, watch, tally, ncalls, queueHist>>

client_in_page_out_returns(p) ==
    /\ pc[p] = "ipo_ret"
    /\ pc' = [pc EXCEPT ![p] = "idle"]
    /\ loc' = [loc EXCEPT ![p] = Idle]
    /\ UNCHANGED <<idcount, waitVars, blobVars, entered, storeVars, watch, tally, ncalls, queueHist>>

NextInPageOut ==
    \/ NextPageOut
    \/ \E p \in Clients, T \in Tuples, temp \in TempKeys : client_calls_in_page_out(p, T, temp)
    \/ \E p \in Clients : in_page_out_pipeline(p)
    \/ \E p \in Clients : in_page_out_sdiff(p)
    \/ \E p \in Clients : client_in_page_out_returns(p)

SpecInPageOut == InitPageOut /\ [][NextInPageOut]_vars

\* C20: an in_page_out call whose scratch set was empty when it began and
\* holds just the call's own member when the difference is taken returns True
\* exactly when "<t>&<morton>" is in PAGE-OUT&<lookup>&<res> at that moment;
\* neither step of the call changes a page-out set, a delayed-write queue or
\* a write-lock.
C20_InPageOutReadsOnly ==
    [][\A p \in DOMAIN pc :
        /\ (pc[p] = "ipo_sdiff" /\ pc'[p] = "ipo_ret" /\ loc[p].fresh
                /\ SMembers(sets, loc[p].temp_page_out_key) = {EntryOf(p)[2]})
            => loc'[p].ret = (EntryOf(p) \in sets)
        /\ (pc[p] \in {"ipo_pipe", "ipo_sdiff"} /\ pc'[p] # pc[p])
            => /\ {x \in sets' : x[1] # loc[p].temp_page_out_key}
                    = {x \in sets : x[1] # loc[p].temp_page_out_key}
               /\ lists' = lists
               /\ strs' = strs]_vars

\* A call on an empty scratch set answered True for an address that is in
\* page-out.
C20_Witness ==
    \E p \in DOMAIN pc :
        /\ pc[p] = "ipo_ret" /\ loc[p].fresh /\ loc[p].ret = TRUE
        /\ EntryOf(p) \in sets

\* C34: the answer of add_to_page_out and of in_page_out does not depend on
\* what the scratch set already holds: a call for a tuple that is in the
\* page-out set returns True, also on a scratch key that an earlier call for
\* another tuple has used and that has not expired.
C34_ResultIgnoresScratch ==
    [][\A p \in DOMAIN pc :
        /\ (pc[p] = "apo_exec" /\ pc'[p] = "apo_ret" /\ EntryOf(p) \in sets)
            => loc'[p].ret = TRUE
        /\ (pc[p] = "ipo_sdiff" /\ pc'[p] = "ipo_ret" /\ EntryOf(p) \in sets)
            => loc'[p].ret = TRUE]_vars

-----------------------------------------------------------------------------
(* Delayed-write queue: key formats and list / string commands *)

\* "DELAYED-WRITE&{}&{}&{}&{}".format(lookup_key, resolution, time_sample, morton)
DelayedWriteKey(lookup_key, resolution, time_sample, morton) ==
    <<"DELAYED-WRITE">> \o Amp \o lookup_key \o Amp \o Fmt(resolution) \o Amp
        \o Fmt(time_sample) \o Amp \o Fmt(morton)

\* "RESOURCE-{}".format(delayed_write_key)
ResourceKeyOf(delayed_write_key) == <<"RESOURCE-">> \o delayed_write_key

\* "RESOURCE-DELAYED-WRITE&{}&{}&{}&{}".format(lookup_key, resolution, time_sample, morton)
ResourceDelayedWriteKey(lookup_key, resolution, time_sample, morton) ==
    <<"RESOURCE-", "DELAYED-WRITE">> \o Amp \o lookup_key \o Amp \o Fmt(resolution)
        \o Amp \o Fmt(time_sample) \o Amp \o Fmt(morton)

\* the JSON encoded resource of a channel
ResourceStr(lookup_key) == <<"{lookup_key:">> \o lookup_key \o <<"}">>

LRange(l, key) == IF key \in DOMAIN l THEN l[key] ELSE <<>>

\* the list store with `key` holding `v` (an empty list is no key)
WithList(l, key, v) ==
    [k \in (IF v = <<>> THEN DOMAIN l \ {key} ELSE DOMAIN l \cup {key}) |->
        IF k = key THEN v ELSE l[k]]

\* LPUSH: the new element goes to the head of the list
LPush(l, key, v) == WithList(l, key, <<v>> \o LRange(l, key))

\* RPUSH: the new element goes to the tail of the list
RPush(l, key, v) == WithList(l, key, Append(LRange(l, key), v))

\* LINDEX key 0 / the value LPOP returns: the head, or None on an empty list
None == <<"None">>
LHead(l, key) == IF LRange(l, key) = <<>> THEN None ELSE Head(LRange(l, key))

\* the list store after LPOP
LPop(l, key) == IF LRange(l, key) = <<>> THEN l ELSE WithList(l, key, Tail(LRange(l, key)))

StrGet(st, key) == IF key \in DOMAIN st THEN st[key] ELSE None
StrSet(st, key, v) == [k \in DOMAIN st \cup {key} |-> IF k = key THEN v ELSE st[k]]
StrDel(st, key) == [k \in DOMAIN st \ {key} |-> st[k]]

\* history sequences are kept per key
SeqAt(h, key) == IF key \in DOMAIN h THEN h[key] ELSE <<>>
WithSeq(h, key, v) == [k \in DOMAIN h \cup {key} |-> IF k = key THEN v ELSE h[k]]

-----------------------------------------------------------------------------
(* add_to_delayed_write: RPUSH on the queue, then SET of the resource key *)

add_to_delayed_write_rpush(p) ==
    /\ pc[p] = "adw_rpush"
    /\ LET l == loc[p]
           key == DelayedWriteKey(l.lookup_key, l.resolution, l.time_sample, l.morton)
       IN  /\ lists' = RPush(lists, key, l.write_cuboid_key)
           /\ watch' = Touch(watch, p, key, TRUE)
           /\ pushed' = WithSeq(pushed, key, Append(SeqAt(pushed, key), l.write_cuboid_key))
    /\ pc' = [pc EXCEPT ![p] = "adw_set"]
    /\ UNCHANGED <<idcount, waitVars, blobVars, entered, sets, strs, loc, tally, ncalls, left, handed>>

add_to_delayed_write_set(p) ==
    /\ pc[p] = "adw_set"
    /\ LET l == loc[p]
       IN  strs' = StrSet(strs,
                ResourceDelayedWriteKey(l.lookup_key, l.resolution, l.time_sample, l.morton),
                l.resource_str)
    /\ pc' = [pc EXCEPT ![p] = "adw_ret"]
    /\ UNCHANGED <<idcount, waitVars, blobVars, entered, sets, lists, watch, loc, tally, ncalls, queueHist>>

-----------------------------------------------------------------------------
(* get_single_delayed_write: LPOP, then GET of the resource key *)

get_single_delayed_write_lpop(p) ==
    /\ pc[p] = "gsd_lpop"
    /\ LET key == loc[p].delayed_write_key
           write_cuboid_key == LHead(lists, key)
       IN  /\ lists' = LPop(lists, key)
           /\ watch' = Touch(watch, p, key, write_cuboid_key # None)
           /\ loc' = [loc EXCEPT ![p].write_cuboid_key = write_cuboid_key]
           /\ left' = IF write_cuboid_key = None THEN left
                      ELSE WithSeq(left, key, Append(SeqAt(left, key), write_cuboid_key))
    /\ pc' = [pc EXCEPT ![p] = "gsd_get"]
    /\ UNCHANGED <<idcount, waitVars, blobVars, entered, sets, strs, tally, ncalls, pushed, handed>>

\* The value of the call: (write_cuboid_key, resource), None on an empty queue,
\* and AttributeError when resource.decode() meets a missing resource key.
get_single_delayed_write_result(write_cuboid_key, resource) ==
    IF write_cuboid_key # None
    THEN IF resource = None THEN <<"AttributeError">>
         ELSE <<write_cuboid_key, resource>>
    ELSE None

get_single_delayed_write_get(p) ==
    /\ pc[p] = "gsd_get"
    /\ LET resource == StrGet(strs, ResourceKeyOf(loc[p].delayed_write_key))
           ret == get_single_delayed_write_result(loc[p].write_cuboid_key, resource)
       IN  /\ loc' = [loc EXCEPT ![p].ret = ret]
           /\ handed' = IF Len(ret) = 2 THEN handed (+) SetToBag({ret[1]}) ELSE handed
    /\ pc' = [pc EXCEPT ![p] = "gsd_ret"]
    /\ UNCHANGED <<idcount, waitVars, blobVars, entered, storeVars, watch, tally, ncalls, pushed, left>>

-----------------------------------------------------------------------------
(* get_delayed_writes: WATCH, then MULTI lrange / delete / delete EXEC *)

get_delayed_writes_watch(p) ==
    /\ pc[p] = "gdw_watch"
    /\ watch' = [watch EXCEPT ![p] = [key |-> loc[p].delayed_write_key, dirty |-> FALSE]]
    /\ pc' = [pc EXCEPT ![p] = "gdw_exec"]
    /\ UNCHANGED <<idcount, waitVars, blobVars, entered, storeVars, loc, tally, ncalls, queueHist>>

RECURSIVE BagOfSeq(_)
BagOfSeq(q) == IF q = <<>> THEN EmptyBag ELSE SetToBag({Head(q)}) (+) BagOfSeq(Tail(q))

\* a commit that leaves the resource key behind
get_delayed_writes_commit_keeps_resource(p) ==
    /\ pc[p] = "gdw_exec"
    /\ ~watch[p].dirty
    /\ LET key == loc[p].delayed_write_key
           write_cuboid_key_list == LRange(lists, key)
       IN  /\ lists' = WithList(lists, key, <<>>)
           /\ watch' = Touch([watch EXCEPT ![p] = NoWatch], p, key,
                             write_cuboid_key_list # <<>>)
           /\ loc' = [loc EXCEPT ![p].ret = write_cuboid_key_list]
           /\ left' = IF write_cuboid_key_list = <<>> THEN left
                      ELSE WithSeq(left, key, SeqAt(left, key) \o write_cuboid_key_list)
           /\ handed' = handed (+) BagOfSeq(write_cuboid_key_list)
    /\ pc' = [pc EXCEPT ![p] = "gdw_ret"]
    /\ UNCHANGED <<idcount, waitVars, blobVars, entered, sets, strs, tally, ncalls, pushed>>

get_delayed_writes_commit(p) ==
    /\ pc[p] = "gdw_exec"
    /\ ~watch[p].dirty
    /\ LET key == loc[p].delayed_write_key
           write_cuboid_key_list == LRange(lists, key)
       IN  /\ lists' = WithList(lists, key, <<>>)
           /\ strs' = StrDel(strs, ResourceKeyOf(key))
           /\ watch' = Touch([watch EXCEPT ![p] = NoWatch], p, key,
                             write_cuboid_key_list # <<>>)
           /\ loc' = [loc EXCEPT ![p].ret = write_cuboid_key_list]
           /\ left' = IF write_cuboid_key_list = <<>> THEN left
                      ELSE WithSeq(left, key, SeqAt(left, key) \o write_cuboid_key_list)
           /\ handed' = handed (+) BagOfSeq(write_cuboid_key_list)
    /\ pc' = [pc EXCEPT ![p] = "gdw_ret"]
    /\ UNCHANGED <<idcount, waitVars, blobVars, entered, sets, tally, ncalls, pushed>>

\* a conflict that is answered with an empty list after the queue and its
\* resource key were deleted all the same
get_delayed_writes_watch_error_deletes(p) ==
    /\ pc[p] = "gdw_exec"
    /\ watch[p].dirty
    /\ lists' = WithList(lists, loc[p].delayed_write_key, <<>>)
    /\ strs' = StrDel(strs, ResourceKeyOf(loc[p].delayed_write_key))
    /\ watch' = [watch EXCEPT ![p] = NoWatch]
    /\ loc' = [loc EXCEPT ![p].ret = <<>>, ![p].caught = "WatchError"]
    /\ pc' = [pc EXCEPT ![p] = "gdw_ret"]
    /\ UNCHANGED <<idcount, waitVars, blobVars, entered, sets, tally, ncalls, queueHist>>

\* redis.WatchError: bail out with an empty list
get_delayed_writes_watch_error(p) ==
    /\ pc[p] = "gdw_exec"
    /\ watch[p].dirty
    /\ watch' = [watch EXCEPT ![p] = NoWatch]
    /\ loc' = [loc EXCEPT ![p].ret = <<>>, ![p].caught = "WatchError"]
    /\ pc' = [pc EXCEPT ![p] = "gdw_ret"]
    /\ UNCHANGED <<idcount, waitVars, blobVars, entered, storeVars, tally, ncalls, queueHist>>

-----------------------------------------------------------------------------
(* Queue call model: NumProducers producers, each calling                   *)
(* add_to_delayed_write once with a key of its own, and two drainers        *)
(* calling get_single_delayed_write / get_delayed_writes for ever, all on   *)
(* the delayed-write queue of one cuboid address                            *)

Producers == 1..NumProducers
Drainers == {NumProducers + 1, NumProducers + 2}

\* the uuid suffix of the write-cuboid key client p mints
UuidOf(p) == <<"u">> \o Fmt(p)

QueueTuples == {TupleA}
QueueKeys == {DelayedWriteKey(T.lookup, T.res, T.t, T.m) : T \in QueueTuples}

producer_calls_add_to_delayed_write(p, T) ==
    /\ pc[p] = "idle"
    /\ loc' = [loc EXCEPT ![p] =
            [Idle EXCEPT !.write_cuboid_key = WriteCuboidKey(T, UuidOf(p)),
                         !.lookup_key = T.lookup, !.resolution = T.res,
                         !.morton = T.m, !.time_sample = T.t,
                         !.resource_str = ResourceStr(T.lookup)]]
    /\ pc' = [pc EXCEPT ![p] = "adw_rpush"]
    /\ UNCHANGED <<idcount, waitVars, blobVars, entered, storeVars, watch, tally, ncalls, queueHist>>

producer_add_to_delayed_write_returns(p) ==
    /\ pc[p] = "adw_ret"
    /\ pc' = [pc EXCEPT ![p] = "done"]
    /\ loc' = [loc EXCEPT ![p] = Idle]
    /\ UNCHANGED <<idcount, waitVars, blobVars, entered, storeVars, watch, tally, ncalls, queueHist>>

drainer_calls_get_single_delayed_write(p, key) ==
    /\ pc[p] = "idle"
    /\ loc' = [loc EXCEPT ![p] = [Idle EXCEPT !.delayed_write_key = key]]
    /\ pc' = [pc EXCEPT ![p] = "gsd_lpop"]
    /\ UNCHANGED <<idcount, waitVars, blobVars, entered, storeVars, watch, tally, ncalls, queueHist>>

drainer_calls_get_delayed_writes(p, key) ==
    /\ pc[p] = "idle"
    /\ loc' = [loc EXCEPT ![p] = [Idle EXCEPT !.delayed_write_key = key]]
    /\ pc' = [pc EXCEPT ![p] = "gdw_watch"]
    /\ UNCHANGED <<idcount, waitVars, blobVars, entered, storeVars, watch, tally, ncalls, queueHist>>

\* the call returns its value or raises; the caller goes on
drainer_call_returns(p) ==
    /\ pc[p] \in {"gsd_ret", "gdw_ret"}
    /\ pc' = [pc EXCEPT ![p] = "idle"]
    /\ loc' = [loc EXCEPT ![p] = Idle]
    /\ UNCHANGED <<idcount, waitVars, blobVars, entered, storeVars, watch, tally, ncalls, queueHist>>

InitQueue ==
    /\ sets = {}
    /\ lists = <<>>
    /\ strs = <<>>
    /\ watch = [p \in Producers \cup Drainers |-> NoWatch]
    /\ pc = [p \in Producers \cup Drainers |-> "idle"]
    /\ loc = [p \in Producers \cup Drainers |-> Idle]
    /\ tally = [e \in Entries |-> NoCalls]
    /\ ncalls = 0
    /\ pushed = <<>> /\ left = <<>> /\ handed = EmptyBag
    /\ objstore = <<>> /\ cache = {} /\ entered = <<>>
    /\ NoPageIn
    /\ idcount = NoIds

NextQueue ==
    \/ \E p \in Producers, T \in QueueTuples : producer_calls_add_to_delayed_write(p, T)
    \/ \E p \in Producers : add_to_delayed_write_rpush(p)
    \/ \E p \in Producers : add_to_delayed_write_set(p)
    \/ \E p \in Producers : producer_add_to_delayed_write_returns(p)
    \/ \E p \in Drainers, key \in QueueKeys : drainer_calls_get_single_delayed_write(p, key)
    \/ \E p \in Drainers : get_single_delayed_write_lpop(p)
    \/ \E p \in Drainers : get_single_delayed_write_get(p)
    \/ \E p \in Drainers, key \in QueueKeys : drainer_calls_get_delayed_writes(p, key)
    \/ \E p \in Drainers : get_delayed_writes_watch(p)
    \/ \E p \in Drainers : get_delayed_writes_commit(p)
    \/ \E p \in Drainers : get_delayed_writes_watch_error(p)
    \/ \E p \in Drainers : drainer_call_returns(p)

SpecQueue == InitQueue /\ [][NextQueue]_vars

-----------------------------------------------------------------------------
(* Claims on the queue call model *)

RECURSIVE Count(_, _)
\* occurrences of x in the sequence q
Count(q, x) == IF q = <<>> THEN 0
               ELSE (IF Head(q) = x THEN 1 ELSE 0) + Count(Tail(q), x)

\* C4: keys leave a delayed-write queue in the order add_to_delayed_write
\* pushed them: the keys taken off so far, followed by the keys still queued,
\* are the keys pushed, in push order; the key get_single_delayed_write
\* returns is one it took off the head.
C4_QueueIsFifo ==
    /\ \A key \in QueueKeys :
            SeqAt(pushed, key) = SeqAt(left, key) \o LRange(lists, key)
    /\ \A p \in DOMAIN pc :
            (pc[p] = "gsd_ret" /\ Len(loc[p].ret) = 2)
                => Count(SeqAt(left, loc[p].delayed_write_key), loc[p].ret[1]) = 1

\* Two producers pushed on one queue, and a get_single_delayed_write returned
\* the second key after the first had been taken off.
C4_Witness ==
    \E p \in DOMAIN pc :
        /\ pc[p] = "gsd_ret" /\ Len(loc[p].ret) = 2
        /\ Len(SeqAt(left, loc[p].delayed_write_key)) >= 2
        /\ loc[p].ret[1] = SeqAt(left, loc[p].delayed_write_key)[2]
        /\ loc[p].ret[1] = SeqAt(pushed, loc[p].delayed_write_key)[2]

\* C6 (I2): whenever no call of add_to_delayed_write, get_delayed_writes or
\* get_single_delayed_write is in progress, a delayed-write list is non-empty
\* exactly when its RESOURCE-DELAYED-WRITE key exists.
C6_QueueIffResource ==
    (\A p \in DOMAIN pc : pc[p] \in {"idle", "done"})
        => \A key \in QueueKeys :
                (LRange(lists, key) # <<>>) <=> (ResourceKeyOf(key) \in DOMAIN strs)

\* C7: every pushed write-cuboid key is in exactly one place: still queued,
\* held by a drainer call that has not returned yet, or returned by exactly
\* one drainer call.
C7_EveryKeyHandedOnce ==
    \A key \in QueueKeys :
        \A i \in 1..Len(SeqAt(pushed, key)) :
            LET k == SeqAt(pushed, key)[i]
            IN  Count(LRange(lists, key), k) + CopiesIn(k, handed)
                + Cardinality({p \in DOMAIN pc :
                        pc[p] = "gsd_get" /\ loc[p].write_cuboid_key = k}) = 1

\* C24: when the watched delayed-write key was modified by another client
\* between WATCH and EXEC, get_delayed_writes returns an empty list and the
\* delayed-write lists and the RESOURCE-DELAYED-WRITE keys are exactly as they
\* were; a call whose watched key was not modified returns all keys of the
\* queue.
C24_WatchErrorLeavesQueue ==
    [][\A p \in DOMAIN pc :
        (pc[p] = "gdw_exec" /\ pc'[p] = "gdw_ret")
            => IF watch[p].dirty
               THEN loc'[p].ret = <<>> /\ lists' = lists /\ strs' = strs
               ELSE loc'[p].ret = LRange(lists, loc[p].delayed_write_key)]_vars

\* A get_delayed_writes call caught the WatchError and returned nothing; the
\* queue still holds a key and its resource key is still there.
C24_Witness ==
    \E p \in DOMAIN pc :
        /\ pc[p] = "gdw_ret" /\ loc[p].caught = "WatchError" /\ loc[p].ret = <<>>
        /\ LRange(lists, loc[p].delayed_write_key) # <<>>
        /\ ResourceKeyOf(loc[p].delayed_write_key) \in DOMAIN strs

\* C37: a get_delayed_writes call that commits returns every write-cuboid
\* key that is in the queue at the commit, oldest first (the keys pushed
\* last, in the order of their pushes), and in the same step leaves the
\* queue empty and its RESOURCE-DELAYED-WRITE key deleted; a key pushed after
\* the commit goes to the end of the queue and into no result already made.
C37_CommitTakesWholeQueue ==
    [][\A p \in DOMAIN pc :
        /\ (pc[p] = "gdw_exec" /\ pc'[p] = "gdw_ret" /\ ~watch[p].dirty)
            => LET key == loc[p].delayed_write_key
                   all == SeqAt(pushed, key)
                   n == Len(all)
                   m == Len(SeqAt(lists, key))
               IN  /\ loc'[p].ret = SubSeq(all, n - m + 1, n)
                   /\ key \notin DOMAIN lists'
                   /\ (<<"RESOURCE-">> \o key) \notin DOMAIN strs'
        /\ (pc[p] = "adw_rpush" /\ pc'[p] = "adw_set")
            => /\ \E key \in DOMAIN lists' :
                    lists'[key] = Append(SeqAt(lists, key), loc[p].write_cuboid_key)
               /\ \A q \in DOMAIN pc :
                    pc[q] = "gdw_ret" => loc'[q].ret = loc[q].ret]_vars

\* A get_delayed_writes call committed and holds the one key that was
\* queued; a key pushed after the commit is in the queue, on its own.
C37_Witness ==
    \E p \in DOMAIN pc :
        /\ pc[p] = "gdw_ret" /\ loc[p].caught = "none" /\ Len(loc[p].ret) = 1
        /\ LET q == SeqAt(lists, loc[p].delayed_write_key)
           IN  Len(q) = 1 /\ q[1] # loc[p].ret[1]

\* C25: a get_single_delayed_write that meets a queue whose resource key is
\* missing (the producer is between its rpush and its set) does not fail
\* unexpectedly, and the write-cuboid key it found at the head is still in
\* the queue unless the call returned it.
C25_MissingResourceTolerated ==
    \A p \in DOMAIN pc :
        pc[p] = "gsd_ret" =>
            /\ loc[p].ret # <<"AttributeError">>
            /\ (loc[p].write_cuboid_key # None /\ Len(loc[p].ret) # 2)
                    => Count(LRange(lists, loc[p].delayed_write_key),
                             loc[p].write_cuboid_key) > 0

-----------------------------------------------------------------------------
(* Write lock, key conversion and queue scan *)

\* one lock key for every channel
WriteLockKeyShared(lookup_key) == <<"WRITE-LOCK">>

WriteLockKey(lookup_key) == <<"WRITE-LOCK">> \o Amp \o lookup_key

\* a check that never sees the lock
project_locked_never(st, lookup_key) == FALSE

project_locked(st, lookup_key) == WriteLockKey(lookup_key) \in DOMAIN st

\* a call that flips the lock when asked to set it
set_project_lock_toggles(st, lookup_key, locked) ==
    IF locked /\ (<<"WRITE-LOCK">> \o Amp \o lookup_key) \notin DOMAIN st
    THEN StrSet(st, <<"WRITE-LOCK">> \o Amp \o lookup_key, <<"True">>)
    ELSE StrDel(st, <<"WRITE-LOCK">> \o Amp \o lookup_key)

\* a call that sets the lock whatever `locked` says
set_project_lock_always(st, lookup_key, locked) ==
    StrSet(st, WriteLockKey(lookup_key), <<"True">>)

set_project_lock(st, lookup_key, locked) ==
    IF locked THEN StrSet(st, WriteLockKey(lookup_key), <<"True">>)
    ELSE StrDel(st, WriteLockKey(lookup_key))

\* a conversion that trims the front only and keeps the uuid
write_cuboid_key_to_delayed_write_key_front(write_cuboid_key) ==
    <<"DELAYED-WRITE">> \o Amp \o SplitTail(write_cuboid_key)

write_cuboid_key_to_delayed_write_key(write_cuboid_key) ==
    LET temp_key == RSplitHead(SplitTail(write_cuboid_key))
    IN  <<"DELAYED-WRITE">> \o Amp \o temp_key

\* a peek at the tail of the list
check_single_delayed_write_tail(l, delayed_write_key) ==
    IF LRange(l, delayed_write_key) = <<>> THEN None
    ELSE LRange(l, delayed_write_key)[Len(LRange(l, delayed_write_key))]

\* lindex(delayed_write_key, 0), None for no element
check_single_delayed_write(l, delayed_write_key) == LHead(l, delayed_write_key)

\* status_client.keys("DELAYED-WRITE*"): every key of the store, of any type,
\* whose name starts with DELAYED-WRITE
get_all_delayed_write_keys(s, l, st) ==
    {k \in {e[1] : e \in s} \cup DOMAIN l \cup DOMAIN st : k[1] = "DELAYED-WRITE"}

-----------------------------------------------------------------------------
(* Write path of the facade and background drainer (spec 4.10, 4.7, 5),      *)
(* over the CacheStateDB calls above.  NumWriters writers issue one          *)
(* write_cuboid each; one drainer scans the delayed-write queues for ever.   *)
(* Scratch keys are fresh per write, so their expiry is not observable here. *)

Writers == 1..NumWriters
TheDrainer == NumWriters + 1
WriteTuples == {TupleA}

\* generate_object_key(resource, res, t, morton)
ObjectKey(lookup_key, resolution, time_sample, morton) ==
    lookup_key \o Amp \o Fmt(resolution) \o Amp \o Fmt(time_sample) \o Amp \o Fmt(morton)

\* the object key of the cuboid a write-cuboid key addresses
ObjectKeyOf(write_cuboid_key) == RSplitHead(SplitTail(write_cuboid_key))

\* the lookup key of the channel a write-cuboid key addresses
LookupOf(write_cuboid_key) ==
    RSplitHead(RSplitHead(RSplitHead(RSplitHead(SplitTail(write_cuboid_key)))))

TempKeyOf(p) == <<"temp-">> \o UuidOf(p)

\* steps 1 and 2: refuse on a write lock, else stage the bytes under a fresh
\* write-cuboid key and enter add_to_page_out (step 3)
write_cuboid_begins(p, T) ==
    /\ pc[p] = "idle"
    /\ IF project_locked(strs, T.lookup)
       THEN /\ pc' = [pc EXCEPT ![p] = "locked"]
            /\ loc' = [loc EXCEPT ![p] = [Idle EXCEPT !.ret = "ChannelLocked",
                                                      !.lookup_key = T.lookup]]
            /\ UNCHANGED cache
       ELSE /\ cache' = cache \cup {WriteCuboidKey(T, UuidOf(p))}
            /\ loc' = [loc EXCEPT ![p] =
                    [Idle EXCEPT !.write_cuboid_key = WriteCuboidKey(T, UuidOf(p)),
                                 !.lookup_key = T.lookup, !.resolution = T.res,
                                 !.morton = T.m, !.time_sample = T.t,
                                 !.temp_page_out_key = TempKeyOf(p),
                                 !.resource_str = ResourceStr(T.lookup)]]
            /\ pc' = [pc EXCEPT ![p] = "apo_watch"]
    /\ UNCHANGED <<idcount, waitVars, storeVars, watch, tally, ncalls, queueHist, objstore, entered>>

\* steps 4 / 5: delay when the tuple is in page-out, flush otherwise
write_cuboid_branches(p) ==
    /\ pc[p] = "apo_ret"
    /\ pc' = [pc EXCEPT ![p] = IF loc[p].ret THEN "adw_rpush" ELSE "flush"]
    /\ UNCHANGED <<idcount, waitVars, storeVars, watch, loc, tally, ncalls, queueHist, blobVars, entered>>

\* step 4 done: the delayed write returns success
write_cuboid_delayed(p) ==
    /\ pc[p] = "adw_ret"
    /\ pc' = [pc EXCEPT ![p] = "done"]
    /\ UNCHANGED <<idcount, waitVars, storeVars, watch, loc, tally, ncalls, queueHist, blobVars, entered>>

\* step 5: ObjectStore.put succeeds; the staged write-cuboid is destroyed
flush_put(p) ==
    /\ pc[p] = "flush"
    /\ LET key == loc[p].write_cuboid_key
       IN  /\ objstore' = WithSeq(objstore, ObjectKeyOf(key),
                                  Append(SeqAt(objstore, ObjectKeyOf(key)), key))
           /\ cache' = cache \ {key}
    /\ pc' = [pc EXCEPT ![p] = "rm"]
    /\ UNCHANGED <<idcount, waitVars, storeVars, watch, loc, tally, ncalls, queueHist, entered>>

\* step 5, failure: ObjectStore.put fails; the channel's write lock is set
flush_put_fails(p) ==
    /\ pc[p] = "flush"
    /\ strs' = set_project_lock(strs, LookupOf(loc[p].write_cuboid_key), TRUE)
    /\ loc' = [loc EXCEPT ![p].ret = "IO_ERROR"]
    /\ pc' = [pc EXCEPT ![p] = "failed"]
    /\ UNCHANGED <<idcount, waitVars, sets, lists, watch, tally, ncalls, queueHist, blobVars, entered>>

\* step 5: PageOutTracker.remove_from_page_out(write_key)
flush_removes_from_page_out(p) ==
    /\ pc[p] = "rm"
    /\ LET e == page_out_entry_of(loc[p].write_cuboid_key)
       IN  /\ sets' = remove_from_page_out(sets, loc[p].write_cuboid_key)
           /\ watch' = Touch(watch, p, e[1], sets' # sets)
           /\ tally' = [x \in DOMAIN tally |-> IF x = e THEN NoCalls ELSE tally[x]]
    /\ pc' = [pc EXCEPT ![p] = "tail"]
    /\ UNCHANGED <<idcount, waitVars, lists, strs, loc, ncalls, queueHist, blobVars, entered>>

\* where a flusher goes when it has nothing more to commit
Rest(p) == IF p = TheDrainer THEN "idle" ELSE "done"

\* step 5: look for a non-empty delayed queue for this tuple
flush_looks_for_delayed(p) ==
    /\ pc[p] = "tail"
    /\ LET key == write_cuboid_key_to_delayed_write_key(loc[p].write_cuboid_key)
       IN  IF check_single_delayed_write(lists, key) = None
           THEN /\ pc' = [pc EXCEPT ![p] = Rest(p)]
                /\ loc' = [loc EXCEPT ![p] = IF p = TheDrainer THEN Idle ELSE loc[p]]
           ELSE /\ pc' = [pc EXCEPT ![p] = "gsd_lpop"]
                /\ loc' = [loc EXCEPT ![p].delayed_write_key = key]
    /\ UNCHANGED <<idcount, waitVars, storeVars, watch, tally, ncalls, queueHist, blobVars, entered>>

\* step 5: commit the head of the queue (recursively), stop on an empty
\* queue, fail when get_single_delayed_write raised
flush_takes_head(p) ==
    /\ pc[p] = "gsd_ret"
    /\ IF loc[p].ret = None
       THEN /\ pc' = [pc EXCEPT ![p] = Rest(p)]
            /\ loc' = [loc EXCEPT ![p] = IF p = TheDrainer THEN Idle ELSE loc[p]]
       ELSE /\ pc' = [pc EXCEPT ![p] = IF Len(loc[p].ret) = 2 THEN "flush" ELSE "crashed"]
            /\ UNCHANGED loc
    /\ UNCHANGED <<idcount, waitVars, storeVars, watch, tally, ncalls, queueHist, blobVars, entered>>

\* the drainer scans DELAYED-WRITE* and peeks at a queue
drainer_scans(p) ==
    /\ pc[p] = "idle"
    /\ \E key \in get_all_delayed_write_keys(sets, lists, strs) :
            /\ check_single_delayed_write(lists, key) # None
            /\ loc' = [loc EXCEPT ![p] = [Idle EXCEPT !.delayed_write_key = key]]
    /\ pc' = [pc EXCEPT ![p] = "gsd_lpop"]
    /\ UNCHANGED <<idcount, waitVars, storeVars, watch, tally, ncalls, queueHist, blobVars, entered>>

InitWrite ==
    /\ sets = {}
    /\ lists = <<>>
    /\ strs = <<>>
    /\ watch = [p \in Writers \cup {TheDrainer} |-> NoWatch]
    /\ pc = [p \in Writers \cup {TheDrainer} |-> "idle"]
    /\ loc = [p \in Writers \cup {TheDrainer} |-> Idle]
    /\ tally = [e \in Entries |-> NoCalls]
    /\ ncalls = 0
    /\ pushed = <<>> /\ left = <<>> /\ handed = EmptyBag
    /\ objstore = <<>> /\ cache = {} /\ entered = <<>>
    /\ NoPageIn
    /\ idcount = NoIds

\* the write path alone: concurrent writers, no background drainer
NextWritePath ==
    \/ \E p \in Writers, T \in WriteTuples : write_cuboid_begins(p, T)
    \/ \E p \in Writers : add_to_page_out_watch(p)
    \/ \E p \in Writers : add_to_page_out_commit(p)
    \/ \E p \in Writers : add_to_page_out_watch_error(p)
    \/ \E p \in Writers : write_cuboid_branches(p)
    \/ \E p \in Writers : add_to_delayed_write_rpush(p)
    \/ \E p \in Writers : add_to_delayed_write_set(p)
    \/ \E p \in Writers : write_cuboid_delayed(p)
    \/ \E p \in Writers : flush_put(p)
    \/ \E p \in Writers : flush_put_fails(p)
    \/ \E p \in Writers : flush_removes_from_page_out(p)
    \/ \E p \in Writers : flush_looks_for_delayed(p)
    \/ \E p \in Writers : get_single_delayed_write_lpop(p)
    \/ \E p \in Writers : get_single_delayed_write_get(p)
    \/ \E p \in Writers : flush_takes_head(p)

SpecWritePath == InitWrite /\ [][NextWritePath]_vars

\* the background drainer
NextDrainer ==
    \/ drainer_scans(TheDrainer)
    \/ get_single_delayed_write_lpop(TheDrainer)
    \/ get_single_delayed_write_get(TheDrainer)
    \/ flush_takes_head(TheDrainer)
    \/ flush_put(TheDrainer)
    \/ flush_put_fails(TheDrainer)
    \/ flush_removes_from_page_out(TheDrainer)
    \/ flush_looks_for_delayed(TheDrainer)

NextWrite == NextWritePath \/ NextDrainer

SpecWrite == InitWrite /\ [][NextWrite]_vars

-----------------------------------------------------------------------------
(* The page-out protocol on its own: a writer calls add_to_page_out; on      *)
(* False it flushes and calls remove_from_page_out, on True it enqueues a    *)
(* delayed write.  Each of the NumWriters writers writes once, under its own *)
(* uuid and scratch key.                                                     *)

ProtocolTuples == {TupleA}

protocol_write_begins(p, T) ==
    /\ pc[p] = "idle"
    /\ cache' = cache \cup {WriteCuboidKey(T, UuidOf(p))}
    /\ loc' = [loc EXCEPT ![p] =
            [Idle EXCEPT !.write_cuboid_key = WriteCuboidKey(T, UuidOf(p)),
                         !.lookup_key = T.lookup, !.resolution = T.res,
                         !.morton = T.m, !.time_sample = T.t,
                         !.temp_page_out_key = TempKeyOf(p),
                         !.resource_str = ResourceStr(T.lookup)]]
    /\ pc' = [pc EXCEPT ![p] = "apo_watch"]
    /\ UNCHANGED <<idcount, waitVars, storeVars, watch, tally, ncalls, queueHist, objstore, entered>>

\* the owner has called remove_from_page_out, or the delayed write is queued
protocol_write_returns(p) ==
    /\ pc[p] \in {"tail", "adw_ret"}
    /\ pc' = [pc EXCEPT ![p] = "done"]
    /\ loc' = [loc EXCEPT ![p] = Idle]
    /\ UNCHANGED <<idcount, waitVars, storeVars, watch, tally, ncalls, queueHist, blobVars, entered>>

InitProtocol ==
    /\ sets = {}
    /\ lists = <<>>
    /\ strs = <<>>
    /\ watch = [p \in Writers |-> NoWatch]
    /\ pc = [p \in Writers |-> "idle"]
    /\ loc = [p \in Writers |-> Idle]
    /\ tally = [e \in Entries |-> NoCalls]
    /\ ncalls = 0
    /\ pushed = <<>> /\ left = <<>> /\ handed = EmptyBag
    /\ objstore = <<>> /\ cache = {} /\ entered = <<>>
    /\ NoPageIn
    /\ idcount = NoIds

NextProtocol ==
    \/ \E p \in Writers, T \in ProtocolTuples : protocol_write_begins(p, T)
    \/ \E p \in Writers : add_to_page_out_watch(p)
    \/ \E p \in Writers : add_to_page_out_commit(p)
    \/ \E p \in Writers : add_to_page_out_watch_error(p)
    \/ \E p \in Writers : write_cuboid_branches(p)
    \/ \E p \in Writers : add_to_delayed_write_rpush(p)
    \/ \E p \in Writers : add_to_delayed_write_set(p)
    \/ \E p \in Writers : flush_put(p)
    \/ \E p \in Writers : flush_removes_from_page_out(p)
    \/ \E p \in Writers : protocol_write_returns(p)

SpecProtocol == InitProtocol /\ [][NextProtocol]_vars

\* a writer that received in_page_out = False for T and has not yet called
\* remove_from_page_out
Owning(p, T) ==
    /\ \/ pc[p] = "apo_ret" /\ loc[p].ret = FALSE
       \/ pc[p] \in {"flush", "rm"}
    /\ EntryOf(p) = Entry(T)

\* C2: in every reachable state of the page-out protocol, for each
\* (lookup, resolution, time_sample, morton) at most one writer is between
\* having received in_page_out = False and having called remove_from_page_out.
C2_AtMostOneOwner ==
    \A T \in ProtocolTuples : Cardinality({p \in Writers : Owning(p, T)}) <= 1

\* One writer owns the flush of TupleA after an earlier owner removed the
\* entry, while another writer has been told that TupleA is in page-out.
C2_Witness ==
    \E p, q \in Writers :
        /\ Owning(p, TupleA) /\ pc[p] = "rm"
        /\ pc[q] = "adw_rpush" /\ EntryOf(q) = Entry(TupleA)
        /\ Len(SeqAt(objstore, ObjectKeyOf(loc[p].write_cuboid_key))) = 2

-----------------------------------------------------------------------------
(* Claims on the write path *)

\* no ObjectStore.put has failed (a failed put sets the channel's write lock)
NoStoreFailure == \A k \in DOMAIN strs : k[1] # "WRITE-LOCK"

\* the place of a write-cuboid key in the order of add_to_page_out commits
RECURSIVE IndexIn(_, _)
IndexIn(q, x) == IF q = <<>> THEN 0 ELSE IF Head(q) = x THEN 1 ELSE 1 + IndexIn(Tail(q), x)

\* every write has returned and no delayed write is left over
Quiescent ==
    /\ \A p \in Writers : pc[p] = "done"
    /\ pc[TheDrainer] = "idle"
    /\ lists = <<>>

\* C5: with no store failure, the puts the object store received for one
\* cuboid address are in the order in which the writes passed
\* add_to_page_out, and once every write w1..wk has been committed the last
\* put is wk, the last write that passed add_to_page_out.
C5_PutsInPageOutOrder ==
    NoStoreFailure =>
        \A ok \in DOMAIN objstore :
            /\ \A i, j \in 1..Len(objstore[ok]) :
                  i < j => IndexIn(entered, objstore[ok][i]) < IndexIn(entered, objstore[ok][j])
            /\ Quiescent => objstore[ok][Len(objstore[ok])] = entered[Len(entered)]

\* a flusher that holds a write-cuboid key it took from the queue and has
\* not yet put
Holds(p, key) ==
    /\ loc[p].write_cuboid_key = key
    /\ \/ pc[p] \in {"gsd_get", "flush"}
       \/ pc[p] = "gsd_ret" /\ Len(loc[p].ret) = 2

\* C8: with no store failure, a write that was put on the delayed-write queue
\* is still queued, or is held by a flusher that is about to put it, or has
\* been put to the object store: no delayed write is dropped on the way.
C8_DelayedWriteNotLost ==
    NoStoreFailure =>
        \A dk \in DOMAIN pushed : \A i \in 1..Len(pushed[dk]) :
            LET key == pushed[dk][i]
            IN  \/ Count(LRange(lists, dk), key) > 0
                \/ \E p \in DOMAIN pc : Holds(p, key)
                \/ Count(SeqAt(objstore, ObjectKeyOf(key)), key) > 0

\* the members of all PAGE-OUT&<lookup>&<resolution> sets
PageOutEntries == {x \in sets : x[1][1] = "PAGE-OUT"}

\* C21: once every write has returned with no store failure, no flush is in
\* flight and the delayed-write queues are drained, every
\* PAGE-OUT&<lookup>&<resolution> set is empty, whatever the interleaving.
C21_PageOutEmptyWhenCommitted ==
    (NoStoreFailure /\ Quiescent) => PageOutEntries = {}

\* Every writer has returned, one of the writes went through the delayed
\* queue, and the object store holds a put for each write.
C21_Witness ==
    /\ NoStoreFailure /\ Quiescent
    /\ \E dk \in DOMAIN pushed : Len(pushed[dk]) >= 1
    /\ Len(SeqAt(objstore, ObjectKeyOf(WriteCuboidKey(TupleA, UuidOf(1))))) = NumWriters
    /\ PageOutEntries = {}

-----------------------------------------------------------------------------
(* Page-in channels: create_page_in_channel, notify_page_in_complete,        *)
(* delete_page_in_channel and the polling loop of wait_for_page_in           *)

\* the range of timedelta.seconds is 0 .. DaySeconds - 1
DaySeconds == 86400

callVars == <<storeVars, watch, pc, loc, tally, queueHist, blobVars, entered>>

\* "PAGE-IN-CHANNEL&{}".format(uuid.uuid4().hex), the n-th uuid drawn
PageInChannel(n) == <<"PAGE-IN-CHANNEL">> \o Amp \o <<"uuid">> \o Fmt(n)
PageInChannels == {PageInChannel(n) : n \in 0..(MaxCalls - 1)}

CuboidKeys == {<<"CACHED-CUBOID", "&", "k1">>, <<"CACHED-CUBOID", "&", "k2">>}

SubscribeMessage(channel_name) ==
    [type |-> "subscribe", channel |-> channel_name, data |-> <<"1">>]
DataMessage(page_in_channel, key) ==
    [type |-> "message", channel |-> page_in_channel, data |-> key]

\* a new pubsub connection replaces the listener; the subscribe confirmation
\* is the first message it delivers
create_page_in_channel ==
    /\ ncalls < MaxCalls
    /\ ncalls' = ncalls + 1
    /\ listener' = [state |-> "subscribed", channel |-> PageInChannel(ncalls),
                    inbox |-> <<SubscribeMessage(PageInChannel(ncalls))>>]
    /\ created' = created \cup {PageInChannel(ncalls)}
    /\ UNCHANGED <<idcount, callVars, seconds, wt, announced, wrapped, notified>>

\* self.status_client.publish(page_in_channel, key): delivered to the
\* connections subscribed to that channel
notify_page_in_complete(page_in_channel, key) ==
    /\ ncalls < MaxCalls
    /\ ncalls' = ncalls + 1
    /\ listener' = IF listener.state = "subscribed" /\ listener.channel = page_in_channel
                   THEN [listener EXCEPT !.inbox = Append(@, DataMessage(page_in_channel, key))]
                   ELSE listener
    /\ notified' = IF page_in_channel \in created
                   THEN notified \cup {<<page_in_channel, key>>} ELSE notified
    /\ UNCHANGED <<idcount, callVars, seconds, wt, announced, wrapped, created>>

\* punsubscribe and close of the listener
delete_page_in_channel(l, page_in_channel) ==
    [state |-> "closed", channel |-> <<>>, inbox |-> <<>>]

\* A loop body that takes any data message, whatever its channel.
handle_message_any_channel(msg, keys_set, page_in_channel) ==
    IF msg["type"] # "message" THEN "continue"
    ELSE IF msg["data"] \notin keys_set THEN "KeyError"
    ELSE IF keys_set \ {msg["data"]} = {} THEN "break"
    ELSE "sleep"

\* what the loop body does with a message it got
handle_message(msg, keys_set, page_in_channel) ==
    IF msg["channel"] # page_in_channel THEN "ASYNC_ERROR"
    ELSE IF msg["type"] # "message" THEN "continue"
    ELSE IF msg["data"] \notin keys_set THEN "KeyError"
    ELSE IF keys_set \ {msg["data"]} = {} THEN "break"
    ELSE "sleep"

wait_for_page_in_begins(keys, page_in_channel, timeout) ==
    /\ wt.pc = "idle"
    /\ wt' = [NoWait EXCEPT !.pc = "loop", !.keys = keys, !.keys_set = keys,
                            !.page_in_channel = page_in_channel, !.timeout = timeout]
    /\ seconds' = 0
    /\ announced' = {}
    /\ UNCHANGED <<idcount, callVars, ncalls, listener, pageHist>>

Raised(w, error) == [w EXCEPT !.pc = "raised", !.ret = error]

\* one pass of the while loop, and the clean up after its break
wait_for_page_in_polls ==
    /\ wt.pc = "loop"
    /\ IF listener.state = "None"
       THEN \* None.punsubscribe / None.get_message
            /\ wt' = Raised(wt, "AttributeError")
            /\ UNCHANGED <<listener, announced>>
       ELSE IF seconds > wt.timeout
       THEN /\ listener' = delete_page_in_channel(listener, wt.page_in_channel)
            /\ wt' = Raised(wt, "ASYNC_ERROR")
            /\ UNCHANGED announced
       ELSE IF listener.inbox = <<>>
       THEN /\ wt' = [wt EXCEPT !.polled = TRUE]
            /\ UNCHANGED <<listener, announced>>
       ELSE LET msg == Head(listener.inbox)
                got == [listener EXCEPT !.inbox = Tail(@)]
                todo == handle_message(msg, wt.keys_set, wt.page_in_channel)
            IN  /\ announced' = IF msg.type = "message" /\ msg.channel = wt.page_in_channel
                                THEN announced \cup {msg.data} ELSE announced
                /\ listener' = IF todo = "break"
                               THEN delete_page_in_channel(got, wt.page_in_channel)
                               ELSE got
                /\ wt' = IF todo \in {"ASYNC_ERROR", "KeyError"} THEN Raised(wt, todo)
                         ELSE IF todo = "continue" THEN [wt EXCEPT !.polled = TRUE]
                         ELSE IF todo = "sleep"
                              THEN [wt EXCEPT !.polled = TRUE,
                                              !.keys_set = @ \ {msg.data}]
                         ELSE [wt EXCEPT !.pc = "returned", !.ret = "None",
                                         !.keys_set = @ \ {msg.data}]
    /\ UNCHANGED <<idcount, callVars, ncalls, seconds, pageHist>>

\* a second passes; the loop polls at least once a second
clock_advances ==
    /\ wt.pc = "loop"
    /\ wt.polled
    /\ seconds' = (seconds + 1) % DaySeconds
    /\ wrapped' = (wrapped \/ seconds + 1 = DaySeconds)
    /\ wt' = [wt EXCEPT !.polled = FALSE]
    /\ UNCHANGED <<idcount, callVars, ncalls, listener, announced, created, notified>>

InitWait ==
    /\ sets = {}
    /\ lists = <<>>
    /\ strs = <<>>
    /\ watch = <<>>
    /\ pc = <<>>
    /\ loc = <<>>
    /\ tally = [e \in Entries |-> NoCalls]
    /\ ncalls = 0
    /\ pushed = <<>> /\ left = <<>> /\ handed = EmptyBag
    /\ objstore = <<>> /\ cache = {} /\ entered = <<>>
    /\ NoPageIn
    /\ idcount = NoIds

Timeouts == {0, 1}

NextWait ==
    \/ create_page_in_channel
    \/ \E c \in PageInChannels, key \in CuboidKeys : notify_page_in_complete(c, key)
    \/ \E keys \in SUBSET CuboidKeys, c \in PageInChannels, timeout \in Timeouts :
            wait_for_page_in_begins(keys, c, timeout)
    \/ wait_for_page_in_polls
    \/ clock_advances

SpecWait == InitWait /\ [][NextWait]_vars

\* C9: wait_for_page_in returns normally only if, for every key in keys, a
\* data message carrying that key was received on page_in_channel during the
\* call.
C9_ReturnsOnlyWhenAllAnnounced ==
    wt.pc = "returned" => wt.keys \subseteq announced

\* A wait for two keys returned after both were announced on its channel.
C9_Witness ==
    wt.pc = "returned" /\ wt.keys = CuboidKeys /\ announced = CuboidKeys

\* C36: page-in channels created through one CacheStateDB do not interfere.
\* A wait on a channel this instance created, begun after a second
\* create_page_in_channel, never fails with the wrong-channel ASYNC_ERROR
\* because of the second channel's messages: on a created channel the call
\* raises ASYNC_ERROR only for its timeout.
C36_ChannelsDoNotInterfere ==
    [][(/\ wt.pc = "loop" /\ wt.page_in_channel \in created
        /\ wt'.pc = "raised" /\ wt'.ret = "ASYNC_ERROR")
            => seconds > wt.timeout]_vars

\* C30: wait_for_page_in returns success as soon as its remaining set is
\* empty, with the page-in channel deleted on that path; a call whose
\* remaining set is empty from the start (an empty key set) returns success
\* at its next pass of the loop, without taking a message and without the
\* timeout.
C30_ReturnsOnceNothingRemains ==
    [][/\ (wt.pc = "loop" /\ wt'.pc = "returned")
            => (wt'.keys_set = {} /\ listener'.state = "closed")
       /\ (wt.pc = "loop" /\ wt.keys_set = {} /\ listener.state = "subscribed" /\ wt' # wt)
            => (wt'.pc = "returned" /\ listener'.state = "closed")]_vars

\* waits with a short and with the longest timeout that still fits a day
LongTimeouts == {1, DaySeconds - 1}

\* the channel is created and the publisher sends before the wait begins,
\* then stays silent
create_page_in_channel_first ==
    wt.pc = "idle" /\ ncalls = 0 /\ create_page_in_channel

notify_page_in_complete_early(key) ==
    wt.pc = "idle" /\ notify_page_in_complete(PageInChannel(0), key)

NextWaitLong ==
    \/ create_page_in_channel_first
    \/ \E key \in CuboidKeys : notify_page_in_complete_early(key)
    \/ \E timeout \in LongTimeouts :
            wait_for_page_in_begins(CuboidKeys, PageInChannel(0), timeout)
    \/ wait_for_page_in_polls
    \/ clock_advances

\* the waiting thread keeps running and the clock keeps advancing; the
\* publisher is free to send or not
SpecWaitFair ==
    /\ InitWait /\ [][NextWaitLong]_vars
    /\ WF_vars(wait_for_page_in_polls)
    /\ WF_vars(clock_advances)

\* C10: a wait_for_page_in call that has begun terminates, by returning or
\* by raising, whatever the publisher does.
C10_WaitTerminates ==
    (wt.pc = "loop") ~> (wt.pc \in {"returned", "raised"})

\* more than timeout seconds have passed since the call began
TimeoutElapsed == wrapped \/ seconds > wt.timeout

\* C11: when the timeout elapses while wait_for_page_in is still waiting, the
\* call deletes the page-in channel (the listener is closed) and fails with
\* ASYNC_ERROR; it does not go on waiting or return normally.
C11_TimeoutDeletesAndFails ==
    (wt.pc = "loop" /\ TimeoutElapsed)
        ~> (wt.pc = "raised" /\ wt.ret = "ASYNC_ERROR" /\ listener.state = "closed")

\* a step of the polling loop that takes the message at the head of the
\* listener's inbox, the timeout not having elapsed
TakesMessage ==
    /\ wt.pc = "loop"
    /\ listener.state = "subscribed" /\ listener.inbox # <<>>
    /\ ~(seconds > wt.timeout)
    /\ ncalls' = ncalls /\ seconds' = seconds
    /\ listener' # listener

\* C12: when wait_for_page_in takes a message whose channel differs from
\* page_in_channel, it deletes the channel (the listener is closed, nothing
\* stays subscribed) and fails with ASYNC_ERROR.
C12_WrongChannelTearsDown ==
    [][(TakesMessage /\ Head(listener.inbox).channel # wt.page_in_channel)
        => /\ wt'.pc = "raised" /\ wt'.ret = "ASYNC_ERROR"
           /\ listener'.state = "closed"]_vars

\* C13: a data message on the right channel whose key is not in the
\* remaining set is a no-op: the call does not fail, keys_set is unchanged
\* and the loop goes on.
C13_AbsentKeyIsNoOp ==
    [][(/\ TakesMessage
        /\ Head(listener.inbox).channel = wt.page_in_channel
        /\ Head(listener.inbox).type = "message"
        /\ Head(listener.inbox).data \notin wt.keys_set)
        => /\ wt'.pc = "loop"
           /\ wt'.keys_set = wt.keys_set]_vars

\* the listener holds the data message for `key` on channel `c`
Deliverable(c, key) ==
    /\ listener.state = "subscribed"
    /\ \E i \in 1..Len(listener.inbox) : listener.inbox[i] = DataMessage(c, key)

\* C14: a key published on a channel after create_page_in_channel returned
\* that channel is delivered to the wait_for_page_in on that channel: until
\* that call ends, the message waits in the listener or the call has taken it.
C14_NoNotificationLost ==
    \A n \in notified :
        (wt.pc = "idle" \/ (wt.pc = "loop" /\ wt.page_in_channel = n[1]))
            => (Deliverable(n[1], n[2]) \/ (wt.pc = "loop" /\ n[2] \in announced))

-----------------------------------------------------------------------------
(* The write lock on the write path: writers of two channels, puts that may *)
(* fail                                                                      *)

LockTuples == {TupleA, TupleC}

NextWriteLock ==
    \/ \E p \in Writers, T \in LockTuples : write_cuboid_begins(p, T)
    \/ \E p \in Writers : add_to_page_out_watch(p)
    \/ \E p \in Writers : add_to_page_out_commit(p)
    \/ \E p \in Writers : add_to_page_out_watch_error(p)
    \/ \E p \in Writers : write_cuboid_branches(p)
    \/ \E p \in Writers : add_to_delayed_write_rpush(p)
    \/ \E p \in Writers : add_to_delayed_write_set(p)
    \/ \E p \in Writers : write_cuboid_delayed(p)
    \/ \E p \in Writers : flush_put(p)
    \/ \E p \in Writers : flush_put_fails(p)
    \/ \E p \in Writers : flush_removes_from_page_out(p)
    \/ \E p \in Writers : flush_looks_for_delayed(p)
    \/ \E p \in Writers : get_single_delayed_write_lpop(p)
    \/ \E p \in Writers : get_single_delayed_write_get(p)
    \/ \E p \in Writers : flush_takes_head(p)

SpecWriteLock == InitWrite /\ [][NextWriteLock]_vars

\* the key WRITE-LOCK&<lookup> exists in the string store st
LockExists(st, lookup) == (<<"WRITE-LOCK", "&">> \o lookup) \in DOMAIN st

\* writer p starts a write_cuboid in this step
Begins(p) == pc[p] = "idle" /\ pc'[p] # "idle"

\* C15: a write_cuboid issued while WRITE-LOCK&<lookup> exists fails with
\* ChannelLocked and leaves the cache store, the page-out sets, the
\* delayed-write queues, the object store and every state key unchanged.
C15_LockedWriteChangesNothing ==
    [][\A p \in Writers :
        (Begins(p) /\ LockExists(strs, loc'[p].lookup_key))
            => /\ pc'[p] = "locked" /\ loc'[p].ret = "ChannelLocked"
               /\ UNCHANGED <<storeVars, blobVars>>]_vars

\* A write was refused on a locked channel.
C15_Witness ==
    \E p \in Writers : pc[p] = "locked" /\ LockExists(strs, loc[p].lookup_key)

\* the flush of writer q failed on a put for lookup_key
PutFailed(q, lookup_key) ==
    pc[q] = "failed" /\ LookupOf(loc[q].write_cuboid_key) = lookup_key

\* C16: a failed put sets WRITE-LOCK&<lookup> in the step that surfaces the
\* error; from then on a write_cuboid is refused with ChannelLocked exactly
\* when a put has failed for its lookup, so writes to other lookups go on.
C16_FailedPutLocksChannel ==
    [][\A p \in Writers :
        /\ (pc[p] = "flush" /\ pc'[p] = "failed")
              => LockExists(strs', LookupOf(loc[p].write_cuboid_key))
        /\ Begins(p)
              => ((pc'[p] = "locked" /\ loc'[p].ret = "ChannelLocked")
                    <=> \E q \in Writers : PutFailed(q, loc'[p].lookup_key))
        /\ (Begins(p) /\ pc'[p] # "locked") => pc'[p] = "apo_watch"]_vars

\* After a failed put for 1&2&3 one write to 1&2&3 was refused and a write to
\* 9&9&9 was put.
C16_Witness ==
    \E p, q, r \in Writers :
        /\ PutFailed(p, Lookup1)
        /\ pc[q] = "locked" /\ loc[q].lookup_key = Lookup1
        /\ pc[r] = "done" /\ Len(SeqAt(objstore, ObjectKeyOf(WriteCuboidKey(TupleC, UuidOf(r))))) = 1

-----------------------------------------------------------------------------
(* Write lock call model: NumClients clients issuing up to MaxCalls calls of *)
(* set_project_lock / project_locked with arbitrary arguments                *)

LockLookups == {Lookup1, Lookup2}

client_calls_set_project_lock(p, lookup_key, locked) ==
    /\ pc[p] = "idle"
    /\ ncalls < MaxCalls
    /\ ncalls' = ncalls + 1
    /\ loc' = [loc EXCEPT ![p] = [Idle EXCEPT !.lookup_key = lookup_key, !.locked = locked]]
    /\ pc' = [pc EXCEPT ![p] = "spl"]
    /\ UNCHANGED <<idcount, waitVars, storeVars, watch, tally, queueHist, blobVars, entered>>

\* status_client.set(key, True) or status_client.delete(key)
set_project_lock_runs(p) ==
    /\ pc[p] = "spl"
    /\ strs' = set_project_lock(strs, loc[p].lookup_key, loc[p].locked)
    /\ pc' = [pc EXCEPT ![p] = "spl_ret"]
    /\ UNCHANGED <<idcount, waitVars, sets, lists, watch, loc, tally, ncalls, queueHist, blobVars, entered>>

client_calls_project_locked(p, lookup_key) ==
    /\ pc[p] = "idle"
    /\ ncalls < MaxCalls
    /\ ncalls' = ncalls + 1
    /\ loc' = [loc EXCEPT ![p] = [Idle EXCEPT !.lookup_key = lookup_key]]
    /\ pc' = [pc EXCEPT ![p] = "pl"]
    /\ UNCHANGED <<idcount, waitVars, storeVars, watch, tally, queueHist, blobVars, entered>>

\* bool(status_client.exists(key))
project_locked_runs(p) ==
    /\ pc[p] = "pl"
    /\ loc' = [loc EXCEPT ![p].ret = project_locked(strs, loc[p].lookup_key)]
    /\ pc' = [pc EXCEPT ![p] = "pl_ret"]
    /\ UNCHANGED <<idcount, waitVars, storeVars, watch, tally, ncalls, queueHist, blobVars, entered>>

\* the caller goes on to its next call; what it was told stays in loc
client_lock_call_returns(p) ==
    /\ pc[p] \in {"spl_ret", "pl_ret"}
    /\ pc' = [pc EXCEPT ![p] = "idle"]
    /\ UNCHANGED <<idcount, waitVars, storeVars, watch, loc, tally, ncalls, queueHist, blobVars, entered>>

InitLock ==
    /\ sets = {}
    /\ lists = <<>>
    /\ strs = <<>>
    /\ watch = [p \in Clients |-> NoWatch]
    /\ pc = [p \in Clients |-> "idle"]
    /\ loc = [p \in Clients |-> Idle]
    /\ tally = [e \in Entries |-> NoCalls]
    /\ ncalls = 0
    /\ pushed = <<>> /\ left = <<>> /\ handed = EmptyBag
    /\ objstore = <<>> /\ cache = {} /\ entered = <<>>
    /\ NoPageIn
    /\ idcount = NoIds

NextLock ==
    \/ \E p \in Clients, L \in LockLookups, locked \in BOOLEAN :
            client_calls_set_project_lock(p, L, locked)
    \/ \E p \in Clients : set_project_lock_runs(p)
    \/ \E p \in Clients, L \in LockLookups : client_calls_project_locked(p, L)
    \/ \E p \in Clients : project_locked_runs(p)
    \/ \E p \in Clients : client_lock_call_returns(p)

SpecLock == InitLock /\ [][NextLock]_vars

\* C17: a set_project_lock(L, locked) makes the answer of project_locked(L)
\* equal to `locked` and leaves the answer for every other lookup key as it
\* was; no other step changes an answer; project_locked(L) answers whether
\* WRITE-LOCK&L exists.  So the answer for L is the argument of the most
\* recent set_project_lock(L, .), False when there was none.
C17_LockFollowsLastSet ==
    [][/\ \A p \in Clients :
            (pc[p] = "spl" /\ pc'[p] = "spl_ret")
                => \A L \in LockLookups :
                      LockExists(strs', L) = IF L = loc[p].lookup_key THEN loc[p].locked
                                             ELSE LockExists(strs, L)
       /\ (\A p \in Clients : ~(pc[p] = "spl" /\ pc'[p] = "spl_ret"))
                => \A L \in LockLookups : LockExists(strs', L) = LockExists(strs, L)
       /\ \A p \in Clients :
            (pc[p] = "pl" /\ pc'[p] = "pl_ret")
                => loc'[p].ret = LockExists(strs, loc[p].lookup_key)]_vars

\* 1&2&3 was locked, a client was told so, and the lock was lifted again.
C17_Witness ==
    \E p, q \in Clients :
        /\ pc[p] = "spl_ret" /\ loc[p].lookup_key = Lookup1 /\ ~loc[p].locked
        /\ pc[q] = "pl_ret" /\ loc[q].lookup_key = Lookup1 /\ loc[q].ret = TRUE
        /\ ~LockExists(strs, Lookup1)

-----------------------------------------------------------------------------
(* Key conversion: a write-cuboid key is minted for a cuboid address, turned *)
(* into its delayed-write key, and the write is added to the delayed queue   *)

KeyInts == {0, 7, 12}
KeyLookups == {Fmt(a) \o Amp \o Fmt(b) \o Amp \o Fmt(c) : a, b, c \in KeyInts}
KeyTuples == [lookup : KeyLookups, res : {0, 3}, t : {0, 10}, m : {7, 123}]
KeyUuids == {<<"u1">>, <<"a0b1c2">>}
Converter == 1

InitKeys ==
    /\ sets = {}
    /\ lists = <<>>
    /\ strs = <<>>
    /\ watch = [p \in {Converter} |-> NoWatch]
    /\ pc = [p \in {Converter} |-> "key"]
    /\ \E T \in KeyTuples, uuid \in KeyUuids :
            loc = [p \in {Converter} |->
                    [Idle EXCEPT !.write_cuboid_key = WriteCuboidKey(T, uuid),
                                 !.lookup_key = T.lookup, !.resolution = T.res,
                                 !.morton = T.m, !.time_sample = T.t,
                                 !.resource_str = ResourceStr(T.lookup)]]
    /\ tally = [e \in Entries |-> NoCalls]
    /\ ncalls = 0
    /\ pushed = <<>> /\ left = <<>> /\ handed = EmptyBag
    /\ objstore = <<>> /\ cache = {} /\ entered = <<>>
    /\ NoPageIn
    /\ idcount = NoIds

key_is_converted(p) ==
    /\ pc[p] = "key"
    /\ loc' = [loc EXCEPT ![p].delayed_write_key =
                    write_cuboid_key_to_delayed_write_key(loc[p].write_cuboid_key)]
    /\ pc' = [pc EXCEPT ![p] = "adw_rpush"]
    /\ UNCHANGED <<idcount, waitVars, storeVars, watch, tally, ncalls, queueHist, blobVars, entered>>

NextKeys ==
    \/ key_is_converted(Converter)
    \/ add_to_delayed_write_rpush(Converter)
    \/ add_to_delayed_write_set(Converter)

SpecKeys == InitKeys /\ [][NextKeys]_vars

\* C18: for WRITE-CUBOID&<lookup>&<res>&<t>&<morton>&<uuid> the conversion
\* yields DELAYED-WRITE&<lookup>&<res>&<t>&<morton>, and that is the one
\* queue add_to_delayed_write pushes onto for the same tuple.
C18_ConversionGivesQueueKey ==
    \A p \in DOMAIN pc :
        LET l == loc[p]
            expected == <<"DELAYED-WRITE", "&">> \o l.lookup_key \o <<"&">> \o Fmt(l.resolution)
                            \o <<"&">> \o Fmt(l.time_sample) \o <<"&">> \o Fmt(l.morton)
        IN  /\ pc[p] \in {"adw_rpush", "adw_set", "adw_ret"} => l.delayed_write_key = expected
            /\ pc[p] \in {"adw_set", "adw_ret"} => DOMAIN lists = {l.delayed_write_key}

\* The write for 12&0&7, resolution 3, time 10, morton 123 is on the queue
\* its converted key names.
C18_Witness ==
    \E p \in DOMAIN pc :
        /\ pc[p] = "adw_set"
        /\ loc[p].lookup_key = <<"1", "2", "&", "0", "&", "7">>
        /\ loc[p].resolution = 3 /\ loc[p].time_sample = 10 /\ loc[p].morton = 123
        /\ LRange(lists, loc[p].delayed_write_key) = <<loc[p].write_cuboid_key>>

-----------------------------------------------------------------------------
(* reserve_ids on the id count table (spec 6, 7 and scenario 6): ids are     *)
(* reserved for annotation channels only                                     *)

Datatypes == {"uint8", "uint16", "uint64"}
AnnotationDatatypes == {"uint64"}
Resources == [lookup_key : {Lookup1, Lookup2}, datatype : Datatypes]
Counts == {1, 10}

\* the key of a channel's id counter: a hash of the lookup key, "&", the lookup key
generate_reserve_id_key(resource) ==
    <<"md5(">> \o resource.lookup_key \o <<")">> \o Amp \o resource.lookup_key

IdCount(ids, key) == IF key \in DOMAIN ids THEN ids[key] ELSE 0

\* ids reserved whatever the datatype of the channel
reserve_ids_any_datatype(ids, resource, count) ==
    LET key == generate_reserve_id_key(resource)
        next == IdCount(ids, key) + count
    IN  [ids |-> [k \in DOMAIN ids \cup {key} |-> IF k = key THEN next ELSE ids[k]],
         ret |-> "ok", first_id |-> next - count + 1]

\* reserve_ids(resource, count) -> first_id
reserve_ids(ids, resource, count) ==
    IF resource.datatype \notin AnnotationDatatypes
    THEN [ids |-> ids, ret |-> "DATATYPE_NOT_SUPPORTED", first_id |-> 0]
    ELSE LET key == generate_reserve_id_key(resource)
             next == IdCount(ids, key) + count
         IN  [ids |-> [k \in DOMAIN ids \cup {key} |-> IF k = key THEN next ELSE ids[k]],
              ret |-> "ok", first_id |-> next - count + 1]

client_calls_reserve_ids(p, resource, count) ==
    /\ pc[p] = "idle"
    /\ ncalls < MaxCalls
    /\ ncalls' = ncalls + 1
    /\ loc' = [loc EXCEPT ![p] = [Idle EXCEPT !.lookup_key = resource.lookup_key,
                                              !.datatype = resource.datatype,
                                              !.count = count]]
    /\ pc' = [pc EXCEPT ![p] = "rid"]
    /\ UNCHANGED <<idcount, waitVars, blobVars, entered, storeVars, watch, tally, queueHist>>

reserve_ids_runs(p) ==
    /\ pc[p] = "rid"
    /\ LET r == reserve_ids(idcount, [lookup_key |-> loc[p].lookup_key,
                                      datatype |-> loc[p].datatype], loc[p].count)
       IN  /\ idcount' = r.ids
           /\ loc' = [loc EXCEPT ![p].ret = r.ret, ![p].first_id = r.first_id]
    /\ pc' = [pc EXCEPT ![p] = "rid_ret"]
    /\ UNCHANGED <<waitVars, blobVars, entered, storeVars, watch, tally, ncalls, queueHist>>

client_reserve_ids_returns(p) ==
    /\ pc[p] = "rid_ret"
    /\ pc' = [pc EXCEPT ![p] = "idle"]
    /\ UNCHANGED <<idcount, waitVars, blobVars, entered, storeVars, watch, loc, tally,
                   ncalls, queueHist>>

InitIds ==
    /\ sets = {}
    /\ lists = <<>>
    /\ strs = <<>>
    /\ watch = [p \in Clients |-> NoWatch]
    /\ pc = [p \in Clients |-> "idle"]
    /\ loc = [p \in Clients |-> Idle]
    /\ tally = [e \in Entries |-> NoCalls]
    /\ ncalls = 0
    /\ pushed = <<>> /\ left = <<>> /\ handed = EmptyBag
    /\ objstore = <<>> /\ cache = {} /\ entered = <<>>
    /\ NoPageIn
    /\ idcount = NoIds

NextIds ==
    \/ \E p \in Clients, resource \in Resources, count \in Counts :
            client_calls_reserve_ids(p, resource, count)
    \/ \E p \in Clients : reserve_ids_runs(p)
    \/ \E p \in Clients : client_reserve_ids_returns(p)

SpecIds == InitIds /\ [][NextIds]_vars

\* C22: reserve_ids on a resource whose channel has an image (non-annotation)
\* datatype fails with DATATYPE_NOT_SUPPORTED and leaves every id counter as
\* it was.
C22_ImageChannelReservesNothing ==
    [][\A p \in DOMAIN pc :
        (pc[p] = "rid" /\ pc'[p] = "rid_ret" /\ loc[p].datatype \in {"uint8", "uint16"})
            => /\ loc'[p].ret = "DATATYPE_NOT_SUPPORTED"
               /\ idcount' = idcount]_vars

\* reserve_ids(image resource, 10) has failed on a table in which ids were
\* reserved for an annotation channel before.
C22_Witness ==
    \E p \in DOMAIN pc :
        /\ pc[p] = "rid_ret" /\ loc[p].datatype = "uint8" /\ loc[p].count = 10
        /\ loc[p].ret = "DATATYPE_NOT_SUPPORTED"
        /\ \E key \in DOMAIN idcount : idcount[key] > 0

-----------------------------------------------------------------------------
(* Region.get_cuboid_aligned_sub_region (spec 8, scenario 5; the cases of    *)
(* test_region.py): the cuboids that lie wholly inside a requested region    *)

\* CUBOIDSIZE[0]: the x, y, z dimensions of a cuboid at resolution 0
CUBOIDSIZE == <<512, 512, 16>>
Axes == 1..3

\* corner and extent arguments per axis (x, y, z)
Corners == {<<x, y, z>> : x \in {0, 100, 511, 512, 513}, y \in {50, 1023, 1024},
                          z \in {4, 15, 16, 32}}
Extents == {<<x, y, z>> : x \in {0, 20, 100, 511, 512, 1024, 1026},
                          y \in {20, 50, 512, 514}, z \in {4, 12, 16, 18, 32}}

\* range(start, stop) and the integers it yields
Range(start, stop) == [start |-> start, stop |-> stop]
RangeMembers(r) == r.start..(r.stop - 1)

\* a range that starts at the cuboid holding the corner, whole or not
cuboid_range_from_floor(corner, extent, dim) ==
    Range(corner \div dim, (corner + extent) \div dim)

\* the first cuboid that starts at or after the corner, up to the last
\* cuboid that ends at or before corner + extent
cuboid_range(corner, extent, dim) ==
    Range((corner + dim - 1) \div dim, (corner + extent) \div dim)

\* Region.get_cuboid_aligned_sub_region(resolution, corner, extent)
get_cuboid_aligned_sub_region(resolution, corner, extent) ==
    [a \in Axes |-> cuboid_range(corner[a], extent[a], CUBOIDSIZE[a])]

NoCuboids == [a \in Axes |-> Range(0, 0)]
Aligner == 1

InitRegion ==
    /\ sets = {}
    /\ lists = <<>>
    /\ strs = <<>>
    /\ watch = [p \in {Aligner} |-> NoWatch]
    /\ pc = [p \in {Aligner} |-> "region"]
    /\ \E corner \in Corners, extent \in Extents :
            loc = [p \in {Aligner} |->
                    [resolution |-> 0, corner |-> corner, extent |-> extent,
                     cuboids |-> NoCuboids]]
    /\ tally = [e \in Entries |-> NoCalls]
    /\ ncalls = 0
    /\ pushed = <<>> /\ left = <<>> /\ handed = EmptyBag
    /\ objstore = <<>> /\ cache = {} /\ entered = <<>>
    /\ NoPageIn
    /\ idcount = NoIds

region_is_aligned(p) ==
    /\ pc[p] = "region"
    /\ loc' = [loc EXCEPT ![p].cuboids =
            get_cuboid_aligned_sub_region(loc[p].resolution, loc[p].corner, loc[p].extent)]
    /\ pc' = [pc EXCEPT ![p] = "aligned"]
    /\ UNCHANGED <<idcount, waitVars, storeVars, watch, tally, ncalls, queueHist, blobVars, entered>>

NextRegion == region_is_aligned(Aligner)

SpecRegion == InitRegion /\ [][NextRegion]_vars

\* the cuboid indices along axis a whose whole cuboid [i*dim, (i+1)*dim) lies
\* inside [corner, corner + extent)
WholeCuboids(corner, extent, dim) ==
    {i \in 0..((corner + extent) \div dim + 1) :
        i * dim >= corner /\ (i + 1) * dim <= corner + extent}

\* C23: per axis, get_cuboid_aligned_sub_region yields exactly the indices of
\* the cuboids that lie wholly inside [corner, corner + extent), with
\* dim = 512, 512, 16 at resolution 0; the range is empty when the region
\* holds no whole cuboid along the axis.
C23_RangeIsWholeCuboids ==
    \A p \in DOMAIN pc :
        pc[p] = "aligned" =>
            \A a \in 1..3 :
                RangeMembers(loc[p].cuboids[a])
                    = WholeCuboids(loc[p].corner[a], loc[p].extent[a], <<512, 512, 16>>[a])

\* corner (512, 1024, 16), extent (1024, 512, 16) gives x [1,3), y [2,3),
\* z [1,2).
C23_Witness ==
    \E p \in DOMAIN pc :
        /\ pc[p] = "aligned"
        /\ loc[p].corner = <<512, 1024, 16>> /\ loc[p].extent = <<1024, 512, 16>>
        /\ loc[p].cuboids = <<Range(1, 3), Range(2, 3), Range(1, 2)>>

-----------------------------------------------------------------------------
(* Peek call model: the queue call model with one drainer that also calls    *)
(* check_single_delayed_write and may follow it with                         *)
(* get_single_delayed_write on the same queue                                *)

drainer_calls_check_single_delayed_write(p, key) ==
    /\ pc[p] = "idle"
    /\ loc' = [loc EXCEPT ![p] = [Idle EXCEPT !.delayed_write_key = key]]
    /\ pc' = [pc EXCEPT ![p] = "csd"]
    /\ UNCHANGED <<idcount, waitVars, blobVars, entered, storeVars, watch, tally, ncalls, queueHist>>

\* the lindex; `seen` remembers the lists and string keys of that moment and
\* whether every other client was outside a call
check_single_delayed_write_runs(p) ==
    /\ pc[p] = "csd"
    /\ loc' = [loc EXCEPT ![p].peeked = check_single_delayed_write(lists, loc[p].delayed_write_key),
                          ![p].seen = <<lists, strs,
                                \A q \in DOMAIN pc \ {p} : pc[q] \in {"idle", "done"}>>]
    /\ pc' = [pc EXCEPT ![p] = "csd_ret"]
    /\ UNCHANGED <<idcount, waitVars, blobVars, entered, storeVars, watch, tally, ncalls, queueHist>>

\* the caller goes on to get_single_delayed_write on the queue it peeked at
drainer_pops_after_check(p) ==
    /\ pc[p] = "csd_ret"
    /\ pc' = [pc EXCEPT ![p] = "gsd_lpop"]
    /\ UNCHANGED <<idcount, waitVars, blobVars, entered, storeVars, watch, loc, tally, ncalls, queueHist>>

drainer_check_returns(p) ==
    /\ pc[p] = "csd_ret"
    /\ pc' = [pc EXCEPT ![p] = "idle"]
    /\ loc' = [loc EXCEPT ![p] = Idle]
    /\ UNCHANGED <<idcount, waitVars, blobVars, entered, storeVars, watch, tally, ncalls, queueHist>>

\* the drainer that peeks before it pops
Peekers == {NumProducers + 1}

NextPeek ==
    \/ NextQueue
    \/ \E p \in Peekers, key \in QueueKeys : drainer_calls_check_single_delayed_write(p, key)
    \/ \E p \in Peekers : check_single_delayed_write_runs(p)
    \/ \E p \in Peekers : drainer_pops_after_check(p)
    \/ \E p \in Peekers : drainer_check_returns(p)

SpecPeek == InitQueue /\ [][NextPeek]_vars

\* the oldest key of a queue: the first key pushed that was not taken off yet
Oldest(key) ==
    IF Len(SeqAt(pushed, key)) > Len(SeqAt(left, key))
    THEN SeqAt(pushed, key)[Len(SeqAt(left, key)) + 1]
    ELSE None

\* no other client is inside a call
OthersAtRest(p) == \A q \in DOMAIN pc \ {p} : pc[q] \in {"idle", "done"}

-----------------------------------------------------------------------------
(* add_to_page_out under contention: a caller adds TupleA again and again,   *)
(* while a contender keeps changing the same page-out set by adding and      *)
(* removing TupleB; the calls are not budgeted, each client has a scratch    *)
(* key of its own                                                            *)

Caller == 1
Contender == 2

contending_add_to_page_out(p, T) ==
    /\ pc[p] = "idle"
    /\ loc' = [loc EXCEPT ![p] =
            [Idle EXCEPT !.lookup_key = T.lookup, !.resolution = T.res, !.morton = T.m,
                         !.time_sample = T.t, !.temp_page_out_key = TempKeyOf(p)]]
    /\ pc' = [pc EXCEPT ![p] = "apo_watch"]
    /\ UNCHANGED <<idcount, waitVars, blobVars, entered, storeVars, watch, tally, ncalls, queueHist>>

contending_remove_from_page_out(p, write_cuboid_key) ==
    /\ pc[p] = "idle"
    /\ LET e == page_out_entry_of(write_cuboid_key)
       IN  /\ sets' = remove_from_page_out(sets, write_cuboid_key)
           /\ watch' = Touch(watch, p, e[1], sets' # sets)
           /\ tally' = [x \in DOMAIN tally |-> IF x = e THEN NoCalls ELSE tally[x]]
    /\ UNCHANGED <<idcount, waitVars, blobVars, entered, lists, strs, pc, loc, ncalls, queueHist>>

InitContention ==
    /\ sets = {}
    /\ lists = <<>>
    /\ strs = <<>>
    /\ watch = [p \in {Caller, Contender} |-> NoWatch]
    /\ pc = [p \in {Caller, Contender} |-> "idle"]
    /\ loc = [p \in {Caller, Contender} |-> Idle]
    /\ tally = [e \in Entries |-> NoCalls]
    /\ ncalls = 0
    /\ pushed = <<>> /\ left = <<>> /\ handed = EmptyBag
    /\ objstore = <<>> /\ cache = {} /\ entered = <<>>
    /\ NoPageIn
    /\ idcount = NoIds

NextContention ==
    \/ contending_add_to_page_out(Caller, TupleA)
    \/ contending_add_to_page_out(Contender, TupleB)
    \/ contending_remove_from_page_out(Contender, WriteCuboidKey(TupleB, UuidOf(Contender)))
    \/ \E p \in {Caller, Contender} : add_to_page_out_watch(p)
    \/ \E p \in {Caller, Contender} : add_to_page_out_commit(p)
    \/ \E p \in {Caller, Contender} : add_to_page_out_watch_error(p)
    \/ \E p \in {Caller, Contender} : client_add_to_page_out_returns(p)

\* the caller's thread keeps running: it issues its WATCH, and its EXEC
\* either commits or raises WatchError
SpecContention ==
    /\ InitContention /\ [][NextContention]_vars
    /\ WF_vars(add_to_page_out_watch(Caller))
    /\ WF_vars(add_to_page_out_commit(Caller) \/ add_to_page_out_watch_error(Caller))

\* C27: every add_to_page_out call ends, with a result or with an error,
\* however often the page-out set is changed under it; the call that has
\* counted more than 200 watch conflicts retries no more and has failed with
\* REDIS_ERROR.
C27_AddToPageOutTerminates ==
    /\ (pc[Caller] \in {"apo_watch", "apo_exec"}) ~> (pc[Caller] \in {"apo_ret", "apo_raise"})
    /\ [](\A p \in DOMAIN pc :
            loc[p].cnt > 200 => pc[p] = "apo_raise" /\ loc[p].ret = "REDIS_ERROR")

\* The caller lost its WATCH 201 times in a row and gave up.
C27_Witness ==
    /\ pc[Caller] = "apo_raise" /\ loc[Caller].ret = "REDIS_ERROR"
    /\ loc[Caller].cnt = 201

-----------------------------------------------------------------------------
(* add_to_page_out on a store that can fail: a command of the transaction    *)
(* raises something other than WatchError (the connection is lost, the       *)
(* store answers with an error)                                              *)

\* a store failure that reaches the caller as it was raised
add_to_page_out_store_error_unwrapped(p) ==
    /\ pc[p] \in {"apo_watch", "apo_exec"}
    /\ watch' = [watch EXCEPT ![p] = NoWatch]
    /\ loc' = [loc EXCEPT ![p].ret = "ConnectionError", ![p].caught = "Exception"]
    /\ pc' = [pc EXCEPT ![p] = "apo_raise"]
    /\ UNCHANGED <<idcount, waitVars, blobVars, entered, storeVars, tally, ncalls, queueHist>>

\* except Exception as e: raise SpdbError("Failed to check page-out set. ...",
\* ErrorCodes.REDIS_ERROR); the failed command changed nothing
add_to_page_out_store_error(p) ==
    /\ pc[p] \in {"apo_watch", "apo_exec"}
    /\ watch' = [watch EXCEPT ![p] = NoWatch]
    /\ loc' = [loc EXCEPT ![p].ret = "REDIS_ERROR", ![p].caught = "Exception"]
    /\ pc' = [pc EXCEPT ![p] = "apo_raise"]
    /\ UNCHANGED <<idcount, waitVars, blobVars, entered, storeVars, tally, ncalls, queueHist>>

\* pipe.execute() raises after the store has run the queued commands: the
\* reply to EXEC is lost (socket timeout, connection reset), or one queued
\* command answers with an error while the others are applied. The same
\* except clause turns it into REDIS_ERROR.
add_to_page_out_reply_lost(p) ==
    /\ pc[p] = "apo_exec"
    /\ ~watch[p].dirty
    /\ LET l == loc[p]
           page_out_key == PageOutKey(l.lookup_key, l.resolution)
           r == page_out_transaction(sets, l.temp_page_out_key, l.lookup_key,
                                     l.resolution, l.morton, l.time_sample)
       IN  /\ sets' = r.sets
           /\ watch' = Touch([watch EXCEPT ![p] = NoWatch], p, page_out_key,
                             SMembers(r.sets, page_out_key) # SMembers(sets, page_out_key))
    /\ loc' = [loc EXCEPT ![p].ret = "REDIS_ERROR", ![p].caught = "Exception"]
    /\ pc' = [pc EXCEPT ![p] = "apo_raise"]
    /\ UNCHANGED <<idcount, waitVars, blobVars, entered, lists, strs, tally, ncalls, queueHist>>

\* the SpdbError reaches the caller
client_add_to_page_out_raises(p) ==
    /\ pc[p] = "apo_raise"
    /\ pc' = [pc EXCEPT ![p] = "idle"]
    /\ loc' = [loc EXCEPT ![p] = Idle]
    /\ UNCHANGED <<idcount, waitVars, blobVars, entered, storeVars, watch, tally, ncalls, queueHist>>

NextStoreError ==
    \/ NextPageOut
    \/ \E p \in Clients : add_to_page_out_store_error(p)
    \/ \E p \in Clients : add_to_page_out_reply_lost(p)
    \/ \E p \in Clients : client_add_to_page_out_raises(p)

SpecStoreError == InitPageOut /\ [][NextStoreError]_vars

\* C28 as stated: add_to_page_out ends with a store error only when the
\* count of watch conflicts has passed the cap of 200; every other outcome
\* is a boolean in_page_out.
C28_OnlyCapYieldsStoreError ==
    \A p \in DOMAIN pc :
        /\ pc[p] = "apo_raise" => loc[p].cnt > 200
        /\ pc[p] = "apo_ret" => loc[p].ret \in BOOLEAN

\* C28, amended: add_to_page_out ends with a store error (REDIS_ERROR) only
\* when the count of watch conflicts has passed the cap of 200 or a command
\* of the transaction raised an exception other than WatchError; every other
\* outcome is a boolean in_page_out.
C28_StoreErrorFromCapOrStore ==
    \A p \in DOMAIN pc :
        /\ pc[p] = "apo_raise" =>
                /\ loc[p].ret = "REDIS_ERROR"
                /\ loc[p].cnt > 200 \/ loc[p].caught = "Exception"
        /\ pc[p] = "apo_ret" => loc[p].ret \in BOOLEAN

\* A call lost its WATCH once, retried, and then failed on the store with
\* REDIS_ERROR, far below the cap.
C28_Witness ==
    \E p \in DOMAIN pc :
        /\ pc[p] = "apo_raise" /\ loc[p].ret = "REDIS_ERROR"
        /\ loc[p].cnt = 1 /\ loc[p].caught = "Exception"

\* C35: when add_to_page_out fails with a store error (the retry cap is
\* exceeded or another store exception is raised), the failing call has
\* added nothing: the step that ends the call with the error leaves the
\* page-out set and the scratch set as they were.
C35_FailedAddAddsNothing ==
    [][\A p \in DOMAIN pc :
        (pc[p] \in {"apo_watch", "apo_exec"} /\ pc'[p] = "apo_raise")
            => sets' = sets]_vars

-----------------------------------------------------------------------------
(* Every operation of CacheStateDB side by side: NumClients clients issuing  *)
(* up to MaxCalls calls of the write-lock, page-out, delayed-write and       *)
(* page-in methods, with the scratch keys' expiry                            *)

client_calls_add_to_delayed_write(p, T) ==
    /\ pc[p] = "idle"
    /\ ncalls < MaxCalls
    /\ ncalls' = ncalls + 1
    /\ loc' = [loc EXCEPT ![p] =
            [Idle EXCEPT !.write_cuboid_key = WriteCuboidKey(T, UuidOf(ncalls)),
                         !.lookup_key = T.lookup, !.resolution = T.res,
                         !.morton = T.m, !.time_sample = T.t,
                         !.resource_str = ResourceStr(T.lookup)]]
    /\ pc' = [pc EXCEPT ![p] = "adw_rpush"]
    /\ UNCHANGED <<idcount, waitVars, blobVars, entered, storeVars, watch, tally, queueHist>>

client_add_to_delayed_write_returns(p) ==
    /\ pc[p] = "adw_ret"
    /\ pc' = [pc EXCEPT ![p] = "idle"]
    /\ loc' = [loc EXCEPT ![p] = Idle]
    /\ UNCHANGED <<idcount, waitVars, blobVars, entered, storeVars, watch, tally, ncalls, queueHist>>

client_calls_get_single_delayed_write(p, key) ==
    /\ pc[p] = "idle"
    /\ ncalls < MaxCalls
    /\ ncalls' = ncalls + 1
    /\ loc' = [loc EXCEPT ![p] = [Idle EXCEPT !.delayed_write_key = key]]
    /\ pc' = [pc EXCEPT ![p] = "gsd_lpop"]
    /\ UNCHANGED <<idcount, waitVars, blobVars, entered, storeVars, watch, tally, queueHist>>

client_calls_get_delayed_writes(p, key) ==
    /\ pc[p] = "idle"
    /\ ncalls < MaxCalls
    /\ ncalls' = ncalls + 1
    /\ loc' = [loc EXCEPT ![p] = [Idle EXCEPT !.delayed_write_key = key]]
    /\ pc' = [pc EXCEPT ![p] = "gdw_watch"]
    /\ UNCHANGED <<idcount, waitVars, blobVars, entered, storeVars, watch, tally, queueHist>>

NextDelayedCalls ==
    \/ \E p \in Clients, T \in QueueTuples : client_calls_add_to_delayed_write(p, T)
    \/ \E p \in Clients : add_to_delayed_write_rpush(p)
    \/ \E p \in Clients : add_to_delayed_write_set(p)
    \/ \E p \in Clients : client_add_to_delayed_write_returns(p)
    \/ \E p \in Clients, key \in QueueKeys : client_calls_get_single_delayed_write(p, key)
    \/ \E p \in Clients : get_single_delayed_write_lpop(p)
    \/ \E p \in Clients : get_single_delayed_write_get(p)
    \/ \E p \in Clients, key \in QueueKeys : client_calls_get_delayed_writes(p, key)
    \/ \E p \in Clients : get_delayed_writes_watch(p)
    \/ \E p \in Clients : get_delayed_writes_commit(p)
    \/ \E p \in Clients : get_delayed_writes_watch_error(p)
    \/ \E p \in Clients : drainer_call_returns(p)

WaitedKeys == {<<"CACHED-CUBOID", "&", "k1">>}

\* one page-in: a wait for one cuboid on the first channel
NextPageInCalls ==
    \/ create_page_in_channel
    \/ \E key \in WaitedKeys : notify_page_in_complete(PageInChannel(0), key)
    \/ \E timeout \in Timeouts : wait_for_page_in_begins(WaitedKeys, PageInChannel(0), timeout)
    \/ wait_for_page_in_polls
    \/ clock_advances

NextAll == NextLock \/ NextInPageOut \/ NextDelayedCalls \/ NextPageInCalls

SpecAll == InitLock /\ [][NextAll]_vars

\* C29: a WRITE-LOCK&<lookup> key that exists is removed by nothing but a
\* set_project_lock(lookup, False): not by a page-in, page-out or
\* delayed-write operation, not by set_project_lock for another lookup key or
\* with locked = True, and not by an expiry.
C29_LockStaysUntilCleared ==
    [][\A L \in {Lookup1, Lookup2} :
        (LockExists(strs, L) /\ ~LockExists(strs', L))
            => \E p \in DOMAIN pc :
                    /\ pc[p] = "spl" /\ pc'[p] = "spl_ret"
                    /\ loc[p].lookup_key = L /\ loc[p].locked = FALSE]_vars

\* The lock of 1&2&3 is set; since then a member went into a page-out set
\* and a write onto a delayed-write queue.
C29_Witness ==
    /\ LockExists(strs, Lookup1)
    /\ ncalls = MaxCalls
    /\ \E x \in sets : x[1][1] = "PAGE-OUT"
    /\ lists # <<>>

-----------------------------------------------------------------------------
(* Page-out tracking of different cuboid addresses *)

\* the addresses that differ from TupleA in one argument (lookup key,
\* resolution, time sample, morton) or have time sample and morton exchanged
NearTuples ==
    {TupleA, TupleB, TupleC,
     [TupleA EXCEPT !.res = 1], [TupleA EXCEPT !.t = 1], [TupleA EXCEPT !.m = 8]}

\* scratch keys no earlier call has used
FreshKeys == <<<<"fresh1">>, <<"fresh2">>, <<"fresh3">>>>

\* C31: page-out tracking of different tuples is independent. From any
\* store the calls can reach and for any two different tuples A and B:
\* with A out of page-out and B added, add_to_page_out for A on a fresh
\* scratch key returns False (never True because of B); with A added and
\* remove_from_page_out called for B, A is still in page-out (the next
\* add_to_page_out for A returns True).
C31_TuplesAreIndependent ==
    \A A \in NearTuples, B \in NearTuples, uuid \in Uuids :
        LET without_A == remove_from_page_out(sets, WriteCuboidKey(A, uuid))
            with_B == page_out_transaction(without_A, FreshKeys[1],
                                           B.lookup, B.res, B.m, B.t).sets
            add_A == page_out_transaction(with_B, FreshKeys[2],
                                          A.lookup, A.res, A.m, A.t)
            without_B == remove_from_page_out(add_A.sets, WriteCuboidKey(B, uuid))
            again_A == page_out_transaction(without_B, FreshKeys[3],
                                            A.lookup, A.res, A.m, A.t)
        IN  A # B =>
                /\ add_A.in_page_out = FALSE
                /\ again_A.in_page_out = TRUE
                /\ SMembers(without_B, PageOutKey(B.lookup, B.res))
                        = SMembers(add_A.sets, PageOutKey(B.lookup, B.res))
                                \ {PageOutMember(B.t, B.m)}

\* With 7&0 of the same page-out set in page-out, a call for 0&7 on an
\* empty scratch set returned False.
C31_Witness ==
    \E p \in DOMAIN pc :
        /\ pc[p] = "apo_ret" /\ loc[p].fresh /\ loc[p].ret = FALSE
        /\ EntryOf(p) = Entry(TupleA)
        /\ Entry(TupleB) \in sets

-----------------------------------------------------------------------------
(* Region.get_sub_region_{x_y,x_z,y_z}_block_{near,far}_side: the partial    *)
(* slabs of a requested region before its first and after its last whole     *)
(* cuboid along one axis (the cases of test_region.py)                       *)

\* Region.Bounds(corner, extent)
Bounds(corner, extent) == [corner |-> corner, extent |-> extent]

\* the axis a block is cut along: x_y blocks along z, x_z along y, y_z along x
Planes == {"x_y", "x_z", "y_z"}
AxisOf(plane) == IF plane = "x_y" THEN 3 ELSE IF plane = "x_z" THEN 2 ELSE 1

\* a near side that always stops at the next cuboid boundary
near_side_extent_to_boundary(corner, extent, dim) ==
    ((corner + dim - 1) \div dim) * dim - corner

\* the extent of the near-side block along its axis
near_side_extent(corner, extent, dim) ==
    LET first == ((corner + dim - 1) \div dim) * dim
    IN  IF first + dim <= corner + extent THEN first - corner ELSE extent

\* a far side that takes the last boundary even when it is the corner itself
far_side_from_corner(corner, extent, dim) ==
    LET boundary == ((corner + extent) \div dim) * dim
    IN  Bounds(boundary, IF boundary >= corner THEN corner + extent - boundary ELSE 0)

\* corner and extent of the far-side block along its axis
far_side(corner, extent, dim) ==
    LET boundary == ((corner + extent) \div dim) * dim
    IN  Bounds(boundary, IF boundary > corner THEN corner + extent - boundary ELSE 0)

get_sub_region_block_near_side(plane, resolution, corner, extent) ==
    LET a == AxisOf(plane)
    IN  Bounds(corner,
               [extent EXCEPT ![a] = near_side_extent(corner[a], extent[a], CUBOIDSIZE[a])])

get_sub_region_block_far_side(plane, resolution, corner, extent) ==
    LET a == AxisOf(plane)
        far == far_side(corner[a], extent[a], CUBOIDSIZE[a])
    IN  Bounds([corner EXCEPT ![a] = far.corner], [extent EXCEPT ![a] = far.extent])

\* corner and extent arguments per axis (x, y, z), the tests' among them
BlockCorners == {<<x, y, z>> : x \in {400, 509, 512}, y \in {100, 490, 1022, 1023, 1024},
                               z \in {0, 4, 14, 16, 17, 18}}
BlockExtents == {<<x, y, z>> : x \in {80, 100, 104, 200, 1024, 1026, 1027},
                               y \in {12, 100, 128, 512, 513, 514},
                               z \in {10, 15, 16, 18, 20, 32, 50}}

NoBlock == Bounds(<<0, 0, 0>>, <<0, 0, 0>>)

InitBlocks ==
    /\ sets = {}
    /\ lists = <<>>
    /\ strs = <<>>
    /\ watch = [p \in {Aligner} |-> NoWatch]
    /\ pc = [p \in {Aligner} |-> "region"]
    /\ \E corner \in BlockCorners, extent \in BlockExtents :
            loc = [p \in {Aligner} |->
                    [resolution |-> 0, corner |-> corner, extent |-> extent,
                     plane |-> "", block |-> NoBlock]]
    /\ tally = [e \in Entries |-> NoCalls]
    /\ ncalls = 0
    /\ pushed = <<>> /\ left = <<>> /\ handed = EmptyBag
    /\ objstore = <<>> /\ cache = {} /\ entered = <<>>
    /\ NoPageIn
    /\ idcount = NoIds

near_side_block_is_cut(p, plane) ==
    /\ pc[p] = "region"
    /\ loc' = [loc EXCEPT ![p].plane = plane,
                          ![p].block = get_sub_region_block_near_side(
                                plane, loc[p].resolution, loc[p].corner, loc[p].extent)]
    /\ pc' = [pc EXCEPT ![p] = "near"]
    /\ UNCHANGED <<idcount, waitVars, storeVars, watch, tally, ncalls, queueHist, blobVars, entered>>

far_side_block_is_cut(p, plane) ==
    /\ pc[p] = "region"
    /\ loc' = [loc EXCEPT ![p].plane = plane,
                          ![p].block = get_sub_region_block_far_side(
                                plane, loc[p].resolution, loc[p].corner, loc[p].extent)]
    /\ pc' = [pc EXCEPT ![p] = "far"]
    /\ UNCHANGED <<idcount, waitVars, storeVars, watch, tally, ncalls, queueHist, blobVars, entered>>

NextBlocks ==
    \/ \E plane \in Planes : near_side_block_is_cut(Aligner, plane)
    \/ \E plane \in Planes : far_side_block_is_cut(Aligner, plane)

SpecBlocks == InitBlocks /\ [][NextBlocks]_vars

\* the calls of test_region.py and the Bounds they expect
TestCase(plane, corner, extent, expected) ==
    [plane |-> plane, corner |-> corner, extent |-> extent, expected |-> expected]

NearSideTests ==
    {TestCase("x_y", <<512, 1024, 16>>, <<1024, 512, 16>>, Bounds(<<512, 1024, 16>>, <<1024, 512, 0>>)),
     TestCase("x_y", <<512, 1024, 14>>, <<1024, 512, 18>>, Bounds(<<512, 1024, 14>>, <<1024, 512, 2>>)),
     TestCase("x_y", <<512, 490, 14>>, <<100, 100, 16>>, Bounds(<<512, 490, 14>>, <<100, 100, 16>>)),
     TestCase("x_y", <<512, 1024, 4>>, <<1024, 512, 10>>, Bounds(<<512, 1024, 4>>, <<1024, 512, 10>>)),
     TestCase("x_y", <<512, 1024, 16>>, <<1024, 512, 10>>, Bounds(<<512, 1024, 16>>, <<1024, 512, 10>>)),
     TestCase("x_z", <<512, 1024, 16>>, <<1024, 512, 16>>, Bounds(<<512, 1024, 16>>, <<1024, 0, 16>>)),
     TestCase("x_z", <<512, 1022, 16>>, <<1024, 514, 16>>, Bounds(<<512, 1022, 16>>, <<1024, 2, 16>>)),
     TestCase("x_z", <<512, 490, 14>>, <<100, 100, 16>>, Bounds(<<512, 490, 14>>, <<100, 100, 16>>)),
     TestCase("x_z", <<512, 100, 0>>, <<1024, 128, 32>>, Bounds(<<512, 100, 0>>, <<1024, 128, 32>>)),
     TestCase("x_z", <<512, 1024, 17>>, <<1024, 12, 50>>, Bounds(<<512, 1024, 17>>, <<1024, 12, 50>>)),
     TestCase("y_z", <<512, 1024, 16>>, <<1024, 512, 16>>, Bounds(<<512, 1024, 16>>, <<0, 512, 16>>)),
     TestCase("y_z", <<509, 1024, 14>>, <<1027, 512, 16>>, Bounds(<<509, 1024, 14>>, <<3, 512, 16>>)),
     TestCase("y_z", <<509, 1024, 14>>, <<100, 512, 16>>, Bounds(<<509, 1024, 14>>, <<100, 512, 16>>)),
     TestCase("y_z", <<400, 1024, 4>>, <<80, 512, 10>>, Bounds(<<400, 1024, 4>>, <<80, 512, 10>>)),
     TestCase("y_z", <<512, 1024, 16>>, <<200, 512, 10>>, Bounds(<<512, 1024, 16>>, <<200, 512, 10>>))}

FarSideTests ==
    {TestCase("x_y", <<512, 1024, 14>>, <<1024, 512, 18>>, Bounds(<<512, 1024, 32>>, <<1024, 512, 0>>)),
     TestCase("x_y", <<512, 1024, 18>>, <<1024, 512, 15>>, Bounds(<<512, 1024, 32>>, <<1024, 512, 1>>)),
     TestCase("x_y", <<512, 1024, 17>>, <<1024, 512, 10>>, Bounds(<<512, 1024, 16>>, <<1024, 512, 0>>)),
     TestCase("x_z", <<512, 1023, 16>>, <<1024, 513, 20>>, Bounds(<<512, 1536, 16>>, <<1024, 0, 20>>)),
     TestCase("x_z", <<512, 1024, 18>>, <<1024, 514, 16>>, Bounds(<<512, 1536, 18>>, <<1024, 2, 16>>)),
     TestCase("x_z", <<512, 1024, 17>>, <<1024, 12, 50>>, Bounds(<<512, 1024, 17>>, <<1024, 0, 50>>)),
     TestCase("y_z", <<512, 1023, 16>>, <<1024, 513, 20>>, Bounds(<<1536, 1023, 16>>, <<0, 513, 20>>)),
     TestCase("y_z", <<512, 1024, 18>>, <<1026, 514, 16>>, Bounds(<<1536, 1024, 18>>, <<2, 514, 16>>)),
     TestCase("y_z", <<512, 1024, 17>>, <<104, 12, 50>>, Bounds(<<512, 1024, 17>>, <<0, 12, 50>>))}

\* the result a test expects for this call, if a test makes it
Expected(tests, l) ==
    {t.expected : t \in {u \in tests : u.plane = l.plane /\ u.corner = l.corner
                                        /\ u.extent = l.extent}}

\* C32: a near-side block sits at the request corner and keeps the other two
\* extents; along its axis it reaches from the corner to the first whole
\* cuboid inside the region (extent 0 when the corner is aligned) if the
\* region holds a whole cuboid along that axis, and has the request's whole
\* extent otherwise. The tests' expectations are instances.
C32_NearSideBlock ==
    \A p \in DOMAIN pc :
        pc[p] = "near" =>
            LET l == loc[p]
                a == AxisOf(l.plane)
                dim == <<512, 512, 16>>[a]
                whole == WholeCuboids(l.corner[a], l.extent[a], dim)
            IN  /\ l.block.corner = l.corner
                /\ \A b \in (1..3) \ {a} : l.block.extent[b] = l.extent[b]
                /\ whole # {} =>
                        /\ (l.corner[a] + l.block.extent[a]) % dim = 0
                        /\ l.block.extent[a] \in 0..(dim - 1)
                        /\ (l.corner[a] % dim = 0 => l.block.extent[a] = 0)
                        /\ \A i \in whole : i * dim >= l.corner[a] + l.block.extent[a]
                /\ whole = {} => l.block.extent[a] = l.extent[a]
                /\ Expected(NearSideTests, l) \subseteq {l.block}

\* corner (509, 1024, 14), extent (1027, 512, 16): the y_z near-side block is
\* 3 wide; the x_y near-side block of the same request along z, where the
\* region holds no whole cuboid, has the whole z extent.
C32_Witness ==
    \E p \in DOMAIN pc :
        /\ pc[p] = "near"
        /\ loc[p].corner = <<509, 1024, 14>> /\ loc[p].extent = <<1027, 512, 16>>
        /\ \/ loc[p].plane = "y_z" /\ loc[p].block.extent = <<3, 512, 16>>
           \/ loc[p].plane = "x_y" /\ loc[p].block.extent = <<1027, 512, 16>>

\* C33: a far-side block starts, along its axis, at the last cuboid boundary
\* at or below the region's end, floor((corner + extent) / dim) * dim; its
\* extent along the axis is the region's end minus that boundary when the
\* boundary lies beyond the request corner and 0 otherwise; its other two
\* corner coordinates and extents are the request's. The tests' expectations
\* are instances.
C33_FarSideBlock ==
    \A p \in DOMAIN pc :
        pc[p] = "far" =>
            LET l == loc[p]
                a == AxisOf(l.plane)
                dim == <<512, 512, 16>>[a]
                end == l.corner[a] + l.extent[a]
                c == l.block.corner[a]
            IN  /\ \A b \in (1..3) \ {a} :
                        l.block.corner[b] = l.corner[b] /\ l.block.extent[b] = l.extent[b]
                /\ c % dim = 0 /\ c <= end /\ end < c + dim
                /\ l.block.extent[a] = IF c > l.corner[a] THEN end - c ELSE 0
                /\ Expected(FarSideTests, l) \subseteq {l.block}

\* corner (512, 1024, 18), extent (1026, 514, 16): the y_z far-side block
\* starts at x = 1536 and is 2 wide.
C33_Witness ==
    \E p \in DOMAIN pc :
        /\ pc[p] = "far" /\ loc[p].plane = "y_z"
        /\ loc[p].corner = <<512, 1024, 18>> /\ loc[p].extent = <<1026, 514, 16>>
        /\ loc[p].block = Bounds(<<1536, 1024, 18>>, <<2, 514, 16>>)

====
